---------------------------- MODULE Spec2Model ----------------------------
(***************************************************************************)
(* LinkVault: the server-side vault record (models/Vault.js), the vault    *)
(* service and controller operating on it, the owner's extend route and    *)
(* the receiver's download hook.                                           *)
(*                                                                         *)
(* One vault document is modelled (every operation is keyed by vaultId).   *)
(* The Vault collection is the set `vaults` (empty once the document has   *)
(* been removed).  Every `await` of a handler is a point where other       *)
(* requests may run, so a handler with several awaits is several actions.  *)
(* Time is a discrete clock `now`; dates are clock values and a nullable   *)
(* date is a set holding zero or one clock value.                          *)
(***************************************************************************)
EXTENDS Integers, Sequences, FiniteSets, Bags, TLC

VARIABLES
    now,      \* the wall clock (new Date())
    vaults,   \* the Vault collection: the documents with this vaultId
    reqs,     \* the requests in flight: a bag of [op, pc, snap]
    started,  \* number of multi-step requests started so far
    nViews,   \* history: number of committed view consumptions
    nTokens,  \* history: number of download session tokens issued
    tokens,   \* the download session tokens issued so far
    nLost,    \* history: number of access requests answered NO_VIEWS_REMAINING
    nFails,   \* history: number of committed failed-attempt increments
    blobs,    \* the blob store: blob key -> stored bytes, or NoBlob
    recv,     \* the receiver's downloadAndDecrypt run (client side)
    out       \* the result of the last evaluation of a pure function

vars == <<now, vaults, reqs, started, nViews, nTokens, tokens, nLost, nFails, blobs, recv, out>>

\* What the server's handlers may change.
server == <<vaults, reqs, started, nViews, nTokens, tokens, nLost, nFails, blobs>>

---------------------------------------------------------------------------
(* Bounds of the exploration: the clock runs 0..MaxTime; a vault is       *)
(* created with policy.maxViews in 1..MaxViews and                         *)
(* policy.maxFailedAttempts = MaxFailedAttempts; at most MaxReqs requests  *)
(* that span several awaits are started; the receiver submits at most      *)
(* MaxAttempts times; a vault expects at most MaxChunks chunks.            *)

MaxTime == 3
MaxViews == 2
MaxFailedAttempts == 2
MaxReqs == 2
MaxAttempts == 2
MaxChunks == 2

(* Program constants *)

defaultMaxViews == 10
maxViewsHardCap == 1000
defaultMaxFailedAttempts == 10
maxExtension == 86400000
maxViewsPerExtend == 1000

\* The lifetime of a download session token ('5m'), in clock units.
DOWNLOAD_SESSION_TTL == 2

Min(a, b) == IF a < b THEN a ELSE b
Max(a, b) == IF a > b THEN a ELSE b

\* Client addresses as req.ip gives them: an IPv4 address, or the same
\* address in IPv4-mapped IPv6 form.  An address is the sequence of the
\* parts of its string.
IPs == {<<"10.0.0.1">>, <<"10.0.0.2">>, <<"::ffff:", "10.0.0.1">>, <<"::ffff:", "10.0.0.2">>}
Users == {"owner", "other"}

---------------------------------------------------------------------------
(* The vault document *)

\* The encrypted chunk bodies a client may send, their length and their
\* SHA-256 hash (collision-free).
Data == {"a", "b"}
sizeOf(data) == IF data = "a" THEN 1 ELSE 2
sha256Hex(data) == <<"sha256", data>>

\* `${vaultId}/chunk-${chunkIndex}`
blobKeyOf(chunkIndex) == <<"v", "chunk", chunkIndex>>

\* The entry uploadChunk builds for a chunk.
chunkEntry(chunkIndex, data, hash) ==
    [index |-> chunkIndex, blobKey |-> blobKeyOf(chunkIndex),
     size |-> sizeOf(data), hash |-> hash]

\* The blob store: every key a vault of MaxChunks chunks can use.
NoBlob == "absent"
BlobKeys == {blobKeyOf(i) : i \in 0..(MaxChunks - 1)}
EmptyStore == [k \in BlobKeys |-> NoBlob]

\* storageService.uploadChunk (an overwriting put).
putBlob(store, blobKey, data) == [store EXCEPT ![blobKey] = data]

\* storageService.deleteVaultBlobs: deleteIfExists on every key.
deleteVaultBlobs(store, blobKeys) ==
    [k \in BlobKeys |-> IF k \in blobKeys THEN NoBlob ELSE store[k]]

\* The chunk entries of a fully uploaded two-chunk vault, in the order the
\* uploads were saved (index 1 first), and the blobs behind them.
UploadedChunks ==
    << chunkEntry(1, "a", sha256Hex("a")), chunkEntry(0, "a", sha256Hex("a")) >>

UploadedBlobs ==
    [k \in BlobKeys |->
        IF \E i \in 1..Len(UploadedChunks) : UploadedChunks[i].blobKey = k
        THEN "a" ELSE NoBlob]

\* computeMetadataHmac: HMAC-SHA256 under the server's secret of
\* `${vaultId}:${merkleRoot}:${ISO date of expiresAt}:${maxViews}`.
computeMetadataHmac(vaultId, merkleRoot, expiresAt, maxViews) ==
    <<"hmac", "HMAC_SECRET", vaultId, merkleRoot, expiresAt, maxViews>>

\* VaultService.initializeVault: the document created in 'pending' state.
\* policyMaxViews = 0 and policyMaxFailed = 0 stand for an absent field.
initializeVault(policyMaxViews, expiryMs, windowStart, windowEnd, policyMaxFailed, userId, allowedIPs, isPasswordProtected, passwordCheck, t) ==
    LET maxViews == Min(Max(IF policyMaxViews = 0 THEN defaultMaxViews
                                                  ELSE policyMaxViews, 1),
                        maxViewsHardCap)
    IN [ uploadStatus   |-> "pending",
         isDeleted      |-> FALSE,
         chunks         |-> << >>,
         expectedChunks |-> Len(UploadedChunks),
         policy         |-> [ maxViews          |-> maxViews,
                              accessWindowStart |-> windowStart,
                              accessWindowEnd   |-> windowEnd,
                              maxFailedAttempts |->
                                  IF policyMaxFailed = 0
                                  THEN defaultMaxFailedAttempts
                                  ELSE policyMaxFailed ],
         remainingViews |-> maxViews,
         failedAttempts |-> 0,
         version        |-> 0,
         createdAt      |-> t,
         merkleRoot     |-> "merkleRoot",
         metadataHmac   |-> computeMetadataHmac("v", "merkleRoot", t + expiryMs,
                                                maxViews),
         expiresAt      |-> t + expiryMs,
         userId         |-> userId,
         allowedIPs     |-> allowedIPs,
         cryptoParams   |-> [ isPasswordProtected |-> isPasswordProtected,
                              passwordCheck       |-> passwordCheck ] ]

\* Fault variant of isAccessible: the view check placed before the expiry
\* check.
isAccessible_viewsFirst(v, t) ==
    IF v.isDeleted THEN [ok |-> FALSE, reason |-> "deleted"]
    ELSE IF v.remainingViews <= 0
        THEN [ok |-> FALSE, reason |-> "no_views_remaining"]
    ELSE IF v.expiresAt <= t THEN [ok |-> FALSE, reason |-> "expired"]
    ELSE IF v.failedAttempts >= v.policy.maxFailedAttempts
        THEN [ok |-> FALSE, reason |-> "locked_out"]
    ELSE IF \E s \in v.policy.accessWindowStart : t < s
        THEN [ok |-> FALSE, reason |-> "before_access_window"]
    ELSE IF \E e \in v.policy.accessWindowEnd : t > e
        THEN [ok |-> FALSE, reason |-> "after_access_window"]
    ELSE [ok |-> TRUE, reason |-> "none"]

\* Fault variant of isAccessible: the lockout threshold compared with >.
isAccessible_lockoutLate(v, t) ==
    IF v.isDeleted THEN [ok |-> FALSE, reason |-> "deleted"]
    ELSE IF v.expiresAt <= t THEN [ok |-> FALSE, reason |-> "expired"]
    ELSE IF v.remainingViews <= 0
        THEN [ok |-> FALSE, reason |-> "no_views_remaining"]
    ELSE IF v.failedAttempts > v.policy.maxFailedAttempts
        THEN [ok |-> FALSE, reason |-> "locked_out"]
    ELSE IF \E s \in v.policy.accessWindowStart : t < s
        THEN [ok |-> FALSE, reason |-> "before_access_window"]
    ELSE IF \E e \in v.policy.accessWindowEnd : t > e
        THEN [ok |-> FALSE, reason |-> "after_access_window"]
    ELSE [ok |-> TRUE, reason |-> "none"]

\* vaultSchema.methods.isAccessible, evaluated at clock value t.
isAccessible(v, t) ==
    IF v.isDeleted THEN [ok |-> FALSE, reason |-> "deleted"]
    ELSE IF v.expiresAt <= t THEN [ok |-> FALSE, reason |-> "expired"]
    ELSE IF v.remainingViews <= 0
        THEN [ok |-> FALSE, reason |-> "no_views_remaining"]
    ELSE IF v.failedAttempts >= v.policy.maxFailedAttempts
        THEN [ok |-> FALSE, reason |-> "locked_out"]
    ELSE IF \E s \in v.policy.accessWindowStart : t < s
        THEN [ok |-> FALSE, reason |-> "before_access_window"]
    ELSE IF \E e \in v.policy.accessWindowEnd : t > e
        THEN [ok |-> FALSE, reason |-> "after_access_window"]
    ELSE [ok |-> TRUE, reason |-> "none"]

---------------------------------------------------------------------------
(* Queries and atomic updates on the Vault collection *)

\* Fault variant of FindComplete: the filter has no uploadStatus condition.
FindComplete_anyStatus == {v \in vaults : ~v.isDeleted}

\* Vault.findOne({ vaultId, uploadStatus: 'complete', isDeleted: false })
FindComplete == {v \in vaults : v.uploadStatus = "complete" /\ ~v.isDeleted}

\* Vault.findOne({ vaultId, isDeleted: false })
FindLive == {v \in vaults : ~v.isDeleted}

\* The positions of the entries of index chunkIndex in a chunk list, and the
\* least of a set of positions (find and findIndex return the first match).
positionsIn(chunks, chunkIndex) ==
    {i \in 1..Len(chunks) : chunks[i].index = chunkIndex}

Min2(S) == CHOOSE i \in S : \A j \in S : i <= j

\* vault.chunks.map((c) => c.blobKey)
blobKeysOf(v) == {v.chunks[i].blobKey : i \in 1..Len(v.chunks)}

\* Fault variant of the consumeView filter: no remainingViews condition.
consumeViewFilter_noViewGuard(v) == ~v.isDeleted

\* The filter of Vault.consumeView: { vaultId, remainingViews: {$gt: 0},
\* isDeleted: false }.
consumeViewFilter(v) == v.remainingViews > 0 /\ ~v.isDeleted

\* The update of Vault.consumeView: { $inc: { remainingViews: -1 } }.
consumeViewUpdate(v) == [v EXCEPT !.remainingViews = @ - 1]

\* Fault variant of the recordFailedAttempt filter: it also requires a view.
recordFailedAttemptFilter_needsView(v) == ~v.isDeleted /\ v.remainingViews > 0

\* The filter of Vault.recordFailedAttempt: { vaultId, isDeleted: false }.
recordFailedAttemptFilter(v) == ~v.isDeleted

\* Fault variant of the recordFailedAttempt update: it also takes a view.
recordFailedAttemptUpdate_takesView(v) ==
    [v EXCEPT !.failedAttempts = @ + 1, !.remainingViews = @ - 1]

\* The update of Vault.recordFailedAttempt: { $inc: { failedAttempts: 1 } }.
recordFailedAttemptUpdate(v) == [v EXCEPT !.failedAttempts = @ + 1]

\* clientIP.replace('::ffff:', ''): the string without the first occurrence
\* of that part.
normalizeIP(clientIP) ==
    LET found == {i \in 1..Len(clientIP) : clientIP[i] = "::ffff:"}
    IN IF found = {} THEN clientIP
       ELSE LET first == CHOOSE i \in found : \A j \in found : i <= j
            IN SubSeq(clientIP, 1, first - 1) \o SubSeq(clientIP, first + 1, Len(clientIP))

\* Fault variant of ipRefused: no address is refused.
ipRefused_never(v, clientIP) == FALSE

\* checkIPRestriction: TRUE when the request is refused.
ipRefused(v, clientIP) ==
    v.allowedIPs # {} /\ normalizeIP(clientIP) \notin v.allowedIPs

---------------------------------------------------------------------------
(* Requests and responses *)

\* A request in flight is [op, pc, snap]: the handler, the await it is
\* suspended at, and what it holds in memory (a set of zero or one value).
Req(op, pc, snap) == [op |-> op, pc |-> pc, snap |-> snap]

InFlight(op, pc) == {q \in BagToSet(reqs) : q.op = op /\ q.pc = pc}

Start(op, pc, snap) ==
    /\ started < MaxReqs
    /\ started' = started + 1
    /\ reqs' = reqs (+) SetToBag({Req(op, pc, snap)})

Goto(q, pc) ==
    /\ reqs' = (reqs (-) SetToBag({q})) (+) SetToBag({Req(q.op, pc, q.snap)})
    /\ started' = started

End(q) ==
    /\ reqs' = reqs (-) SetToBag({q})
    /\ started' = started

\* The response of a handler: an error (HTTP status, error code, the
\* isAccessible reason behind it) or a success (with or without a download
\* session token).
Reply(status, code, reason) ==
    [pass |-> FALSE, status |-> status, code |-> code, reason |-> reason,
     token |-> FALSE]

Pass(token) ==
    [pass |-> TRUE, status |-> 200, code |-> "OK", reason |-> "none",
     token |-> token]

---------------------------------------------------------------------------
(* The clock and the TTL index *)

Tick ==
    /\ now < MaxTime
    /\ now' = now + 1
    /\ UNCHANGED <<server, recv, out>>

\* The TTL index on expiresAt (expireAfterSeconds: 0): MongoDB removes the
\* document at some moment after it has expired.
TTLExpire ==
    /\ \E v \in vaults : v.expiresAt <= now
    /\ vaults' = {}
    /\ UNCHANGED <<now, reqs, started, nViews, nTokens, tokens, nLost, nFails, blobs, recv, out>>

---------------------------------------------------------------------------
(* GET /api/vaults/:vaultId  (VaultService.getVaultMetadata) *)

getVaultMetadata ==
    IF FindComplete = {} THEN Reply(403, "ACCESS_DENIED", "not_found")
    ELSE LET v == CHOOSE v \in FindComplete : TRUE
             access == isAccessible(v, now)
         IN IF ~access.ok THEN Reply(403, "ACCESS_DENIED", access.reason)
            ELSE Pass(FALSE)

\* The handler reads and answers; it writes nothing.
GetMetadata ==
    /\ getVaultMetadata.status \in {200, 403}
    /\ UNCHANGED <<server, now, recv, out>>

---------------------------------------------------------------------------
(* POST /api/vaults/:vaultId/fail  (VaultService.recordFailedAccess) *)

\* Vault.recordFailedAttempt: findOneAndUpdate, the updated document or null.
recordFailedAttempt ==
    {recordFailedAttemptUpdate(v) : v \in {w \in vaults : recordFailedAttemptFilter(w)}}

recordFailedAccess ==
    IF recordFailedAttempt = {} THEN Reply(403, "ACCESS_DENIED", "not_found")
    ELSE Pass(FALSE)

ReportFailedHandler ==
    /\ \A v \in vaults : v.failedAttempts <= MaxFailedAttempts
    /\ IF recordFailedAttempt = {}
       THEN UNCHANGED <<vaults, nFails>>
       ELSE /\ vaults' = recordFailedAttempt
            /\ nFails' = nFails + 1
    /\ UNCHANGED <<reqs, started, nViews, nTokens, tokens, nLost, blobs>>

ReportFailed == ReportFailedHandler /\ UNCHANGED <<now, recv, out>>

---------------------------------------------------------------------------
(* POST /api/vaults/:vaultId/access  (VaultController.accessVault and     *)
(* VaultService.consumeViewAndGetChunks): three awaits.                    *)

\* The controller's findOne and checkIPRestriction.
accessIPCheck(clientIP) ==
    IF \E v \in FindComplete : ipRefused(v, clientIP)
    THEN Reply(403, "GEO_RESTRICTED", "ip")
    ELSE Pass(FALSE)

AccessIPCheckHandler(clientIP) ==
    /\ IF accessIPCheck(clientIP).pass
       THEN Start("access", "precheck", {})
       ELSE UNCHANGED <<reqs, started>>
    /\ UNCHANGED <<vaults, nViews, nTokens, tokens, nLost, nFails, blobs>>

AccessIPCheck ==
    /\ \E clientIP \in IPs : AccessIPCheckHandler(clientIP)
    /\ UNCHANGED <<now, recv, out>>

\* The service's findOne and isAccessible.
accessPolicyCheck ==
    IF FindComplete = {} THEN Reply(403, "ACCESS_DENIED", "not_found")
    ELSE LET v == CHOOSE v \in FindComplete : TRUE
             access == isAccessible(v, now)
         IN IF ~access.ok THEN Reply(403, "ACCESS_DENIED", access.reason)
            ELSE Pass(FALSE)

AccessPreCheckHandler ==
    /\ \E q \in InFlight("access", "precheck") :
          IF accessPolicyCheck.pass THEN Goto(q, "consume") ELSE End(q)
    /\ UNCHANGED <<vaults, nViews, nTokens, tokens, nLost, nFails, blobs>>

AccessPreCheck == AccessPreCheckHandler /\ UNCHANGED <<now, recv, out>>

\* The vault modelled, and another vault of the same server.
VaultId == "v"
OtherVaultId == "w"

\* jwt.sign({ vaultId, type: 'download_session' }, DOWNLOAD_SESSION_SECRET,
\* { expiresIn: DOWNLOAD_SESSION_TTL }) at clock value t.
generateDownloadSessionToken(vaultId, t) ==
    [vaultId |-> vaultId, type |-> "download_session",
     secret |-> "DOWNLOAD_SESSION_SECRET", exp |-> t + DOWNLOAD_SESSION_TTL]

\* Vault.consumeView: findOneAndUpdate, the updated document or null.
consumeView ==
    {consumeViewUpdate(v) : v \in {w \in vaults : consumeViewFilter(w)}}

\* Fault variant of accessResponse: the null result of consumeView is not
\* checked.
accessResponse_unchecked(updated) == Pass(TRUE)

\* What accessVault answers after consumeView returned `updated`.
accessResponse(updated) ==
    IF updated = {} THEN Reply(403, "NO_VIEWS_REMAINING", "no_views_remaining")
    ELSE Pass(TRUE)

AccessConsumeHandler ==
    /\ \E q \in InFlight("access", "consume") : End(q)
    /\ vaults' = IF consumeView = {} THEN vaults ELSE consumeView
    /\ nViews' = IF consumeView = {} THEN nViews ELSE nViews + 1
    /\ nTokens' = IF accessResponse(consumeView).token THEN nTokens + 1
                                                        ELSE nTokens
    /\ tokens' = IF accessResponse(consumeView).token
                 THEN tokens \cup {generateDownloadSessionToken(VaultId, now)}
                 ELSE tokens
    /\ nLost' = IF accessResponse(consumeView).code = "NO_VIEWS_REMAINING"
                THEN nLost + 1 ELSE nLost
    /\ UNCHANGED <<nFails, blobs>>

AccessConsume == AccessConsumeHandler /\ UNCHANGED <<now, recv, out>>

---------------------------------------------------------------------------
(* The error bodies of get-metadata and access: { error: code, message }   *)
(* with the HTTP status of the AppError.                                   *)

\* The message getVaultMetadata puts in its AppError for a reason.
getVaultMetadataMessage(reason) ==
    CASE reason = "not_found" ->
           "This link is invalid or the content has been deleted. Please check with the sender."
      [] reason = "expired" ->
           "This content has expired and is no longer available."
      [] reason = "no_views_remaining" ->
           "This content has reached its maximum view limit and is no longer available."
      [] reason = "locked_out" ->
           "This content has been locked due to too many failed access attempts."
      [] reason = "deleted" -> "This content has been deleted by the owner."
      [] reason = "before_access_window" ->
           "This content is not yet available. Please try again later."
      [] reason = "after_access_window" ->
           "The access window for this content has closed."
      [] OTHER -> "Access denied."

\* The message consumeViewAndGetChunks puts in its AppError for a reason:
\* its map has no entry for the access-window reasons.
consumeViewAndGetChunksMessage(reason) ==
    CASE reason = "not_found" ->
           "This link is invalid or the content has been deleted."
      [] reason = "expired" ->
           "This content has expired and is no longer available."
      [] reason = "no_views_remaining" ->
           "This content has reached its maximum view limit."
      [] reason = "locked_out" ->
           "This content has been locked due to too many failed access attempts."
      [] reason = "deleted" -> "This content has been deleted by the owner."
      [] OTHER -> "Access denied."

\* What the client sees of a refusal.
errorBody(status, code, message) ==
    [status |-> status, code |-> code, message |-> message]

getVaultMetadataError ==
    errorBody(getVaultMetadata.status, getVaultMetadata.code,
              getVaultMetadataMessage(getVaultMetadata.reason))

accessError ==
    errorBody(accessPolicyCheck.status, accessPolicyCheck.code,
              consumeViewAndGetChunksMessage(accessPolicyCheck.reason))

\* The refusals for a vaultId no document has.
getVaultMetadataUnknown ==
    errorBody(403, "ACCESS_DENIED", getVaultMetadataMessage("not_found"))

accessUnknown ==
    errorBody(403, "ACCESS_DENIED", consumeViewAndGetChunksMessage("not_found"))

---------------------------------------------------------------------------
(* GET /api/vaults/:vaultId/chunks/:chunkIndex                             *)
(* (VaultController.downloadChunk, VaultService.downloadChunk)             *)

\* jwt.sign({ userId }, JWT_SECRET, { expiresIn: JWT_EXPIRES_IN }): the
\* payload has no vaultId and no type.  JWT_SECRET and
\* DOWNLOAD_SESSION_SECRET come from the environment, which may set them to
\* the same value.
generateToken(secret) ==
    [vaultId |-> "none", type |-> "none", secret |-> secret, exp |-> MaxTime + 1]

\* No x-download-session header.
NoToken == [vaultId |-> "none", type |-> "missing", secret |-> "none", exp |-> 0]

\* What a client can put in the x-download-session header: nothing, a token
\* an access to this vault returned, a token an access to another vault
\* returned, a login token, a token signed with a key of its own.
SessionTokens ==
    {NoToken} \cup tokens
       \cup {generateDownloadSessionToken(OtherVaultId, now)}
       \cup {generateToken(secret) : secret \in {"JWT_SECRET", "DOWNLOAD_SESSION_SECRET"}}
       \cup {[generateDownloadSessionToken(VaultId, now) EXCEPT !.secret = "forged"]}

\* verifyDownloadSessionToken at clock value t: the decoded payload, or
\* nothing (null).
verifyDownloadSessionToken(token, t) ==
    IF token.secret # "DOWNLOAD_SESSION_SECRET" \/ t >= token.exp THEN {}
    ELSE IF token.type # "download_session" THEN {}
    ELSE {token}

\* Fault variant of sessionCheck: the token's vaultId is not compared.
sessionCheck_anyVault(sessionToken, vaultId) ==
    IF sessionToken = NoToken THEN Reply(401, "MISSING_SESSION", "none")
    ELSE IF verifyDownloadSessionToken(sessionToken, now) = {}
        THEN Reply(403, "INVALID_SESSION", "none")
    ELSE Pass(FALSE)

\* The controller's validation of the session token for vault `vaultId`.
sessionCheck(sessionToken, vaultId) ==
    IF sessionToken = NoToken THEN Reply(401, "MISSING_SESSION", "none")
    ELSE IF \/ verifyDownloadSessionToken(sessionToken, now) = {}
            \/ \E session \in verifyDownloadSessionToken(sessionToken, now) :
                  session.vaultId # vaultId
        THEN Reply(403, "INVALID_SESSION", "none")
    ELSE Pass(FALSE)

\* The whole handler for a request on this vault: the index check, the
\* session check, VaultService.downloadChunk and the read of the blob.
downloadChunk(sessionToken, chunkIndex) ==
    IF chunkIndex < 0 THEN Reply(400, "INVALID_CHUNK_INDEX", "none")
    ELSE IF ~sessionCheck(sessionToken, VaultId).pass
        THEN sessionCheck(sessionToken, VaultId)
    ELSE IF FindComplete = {} THEN Reply(403, "ACCESS_DENIED", "not_found")
    ELSE IF \A v \in FindComplete : positionsIn(v.chunks, chunkIndex) = {}
        THEN Reply(404, "CHUNK_NOT_FOUND", "none")
    ELSE IF \E v \in FindComplete : \E i \in positionsIn(v.chunks, chunkIndex) :
               i = Min2(positionsIn(v.chunks, chunkIndex))
               /\ blobs[v.chunks[i].blobKey] = NoBlob
        THEN Reply(500, "STORAGE_DOWNLOAD_FAILED", "none")
    ELSE Pass(FALSE)

\* Whatever token and index the request carries, the handler reads and
\* answers; it writes nothing.
DownloadChunk ==
    /\ \A sessionToken \in SessionTokens, chunkIndex \in -1..MaxChunks :
          downloadChunk(sessionToken, chunkIndex).status \in {200, 400, 401, 403, 404, 500}
    /\ UNCHANGED <<server, now, recv, out>>

---------------------------------------------------------------------------
(* POST /api/auth/me/vaults/:vaultId/extend: findOne, changes on the       *)
(* in-memory document, then vault.save().                                  *)

\* The request bodies tried: <<additionalMs, additionalViews>>; 0 stands
\* for an absent field.
ExtendBodies == {<<0, 0>>, <<1, 0>>, <<0, 1>>, <<0, 2>>}

\* Vault.findOne({ vaultId, userId, isDeleted: false, uploadStatus: 'complete' })
FindOwned(caller) == {v \in FindComplete : v.userId = caller}

extendLookup(caller, additionalMs, additionalViews) ==
    IF ~(additionalMs > 0) /\ ~(additionalViews > 0)
    THEN Reply(400, "VALIDATION_ERROR", "none")
    ELSE IF FindOwned(caller) = {} THEN Reply(404, "NOT_FOUND", "none")
    ELSE Pass(FALSE)

\* The paths the handler modifies on its in-memory copy of v, read at t.
extendChanges(v, additionalMs, additionalViews, t) ==
    LET extension == Min(additionalMs, maxExtension)
        base == IF v.expiresAt > t THEN v.expiresAt ELSE t
        viewsToAdd == Min(additionalViews, maxViewsPerExtend)
    IN [ expiresAt      |-> IF additionalMs > 0 THEN {base + extension} ELSE {},
         remainingViews |-> IF additionalViews > 0
                            THEN {v.remainingViews + viewsToAdd} ELSE {},
         maxViews       |-> IF additionalViews > 0
                            THEN {v.policy.maxViews + viewsToAdd} ELSE {} ]

\* vault.save(): the modified paths are $set on the stored document v.
extendSave(v, ch) ==
    [v EXCEPT !.expiresAt = IF ch.expiresAt = {} THEN @
                            ELSE CHOOSE x \in ch.expiresAt : TRUE,
              !.remainingViews = IF ch.remainingViews = {} THEN @
                                 ELSE CHOOSE x \in ch.remainingViews : TRUE,
              !.policy.maxViews = IF ch.maxViews = {} THEN @
                                  ELSE CHOOSE x \in ch.maxViews : TRUE]

ExtendRead ==
    /\ \E caller \in Users, body \in ExtendBodies :
          IF extendLookup(caller, body[1], body[2]).pass
          THEN \E v \in FindOwned(caller) :
                  Start("extend", "save",
                        {extendChanges(v, body[1], body[2], now)})
          ELSE UNCHANGED <<reqs, started>>
    /\ UNCHANGED <<vaults, nViews, nTokens, tokens, nLost, nFails, blobs, now, recv, out>>

\* save() on a document that has been removed fails and writes nothing.
ExtendSave ==
    /\ \E q \in InFlight("extend", "save") :
          /\ End(q)
          /\ vaults' = {extendSave(v, ch) : v \in vaults, ch \in q.snap}
    /\ UNCHANGED <<nViews, nTokens, tokens, nLost, nFails, blobs, now, recv, out>>

---------------------------------------------------------------------------
(* POST /api/vaults/:vaultId/delete *)

\* The delete token initializeVault returned (randomBytes(32) in hex), the
\* tokens a request may carry (that one, another one, none) and the hash
\* stored in the document: createHash('sha256').update(deleteToken).
DeleteToken == "deleteToken"
DeleteTokens == {DeleteToken, "otherToken", "none"}
deleteTokenHash == sha256Hex(DeleteToken)

\* Fault variant of deleteLookup: the token is not compared.
deleteLookup_noTokenCheck(deleteToken) ==
    IF deleteToken = "none" THEN Reply(400, "MISSING_TOKEN", "none")
    ELSE IF FindLive = {} THEN Reply(403, "ACCESS_DENIED", "not_found")
    ELSE Pass(FALSE)

\* The controller's check that a token is present, then
\* VaultService.deleteVault: findOne and the comparison of the hashes.
deleteLookup(deleteToken) ==
    IF deleteToken = "none" THEN Reply(400, "MISSING_TOKEN", "none")
    ELSE IF FindLive = {} THEN Reply(403, "ACCESS_DENIED", "not_found")
    ELSE IF sha256Hex(deleteToken) # deleteTokenHash
        THEN Reply(403, "INVALID_DELETE_TOKEN", "none")
    ELSE Pass(FALSE)

DeleteRead ==
    /\ \E deleteToken \in DeleteTokens :
          IF deleteLookup(deleteToken).pass
          THEN \E v \in FindLive :
                  Start("delete", "blobs",
                        {[blobKeys |-> blobKeysOf(v), deleteToken |-> deleteToken]})
          ELSE UNCHANGED <<reqs, started>>
    /\ UNCHANGED <<vaults, nViews, nTokens, tokens, nLost, nFails, blobs, now, recv, out>>

\* storageService.deleteVaultBlobs on the keys read.
DeleteBlobs ==
    /\ \E q \in InFlight("delete", "blobs") :
          /\ Goto(q, "commit")
          /\ \E d \in q.snap : blobs' = deleteVaultBlobs(blobs, d.blobKeys)
    /\ UNCHANGED <<vaults, nViews, nTokens, tokens, nLost, nFails, now, recv, out>>

\* Vault.deleteOne({ _id }).
DeleteCommit ==
    /\ \E q \in InFlight("delete", "commit") : End(q)
    /\ vaults' = {}
    /\ UNCHANGED <<nViews, nTokens, tokens, nLost, nFails, blobs, now, recv, out>>

\* VaultController.deleteVault with authenticatedDelete: findOne and the
\* ownership check.
ownerDeleteLookup(caller) ==
    IF FindLive = {} THEN Reply(404, "NOT_FOUND", "none")
    ELSE IF \E v \in FindLive : v.userId # caller
        THEN Reply(403, "FORBIDDEN", "none")
    ELSE Pass(FALSE)

OwnerDeleteRead ==
    /\ \E caller \in Users :
          IF ownerDeleteLookup(caller).pass
          THEN \E v \in FindLive : Start("ownerDelete", "save", {blobKeysOf(v)})
          ELSE UNCHANGED <<reqs, started>>
    /\ UNCHANGED <<vaults, nViews, nTokens, tokens, nLost, nFails, blobs, now, recv, out>>

\* vault.isDeleted = true; vault.save(): $set on the stored document.
ownerDeleteSave(v) == [v EXCEPT !.isDeleted = TRUE]

\* save() on a document that has been removed fails: the handler stops.
OwnerDeleteSave ==
    /\ \E q \in InFlight("ownerDelete", "save") :
          IF vaults = {} THEN End(q) ELSE Goto(q, "blobs")
    /\ vaults' = {ownerDeleteSave(v) : v \in vaults}
    /\ UNCHANGED <<nViews, nTokens, tokens, nLost, nFails, blobs, now, recv, out>>

\* storageService.deleteVaultBlobs on the in-memory chunk list.
OwnerDeleteBlobs ==
    /\ \E q \in InFlight("ownerDelete", "blobs") :
          /\ End(q)
          /\ blobs' = deleteVaultBlobs(blobs, UNION q.snap)
    /\ UNCHANGED <<vaults, nViews, nTokens, tokens, nLost, nFails, now, recv, out>>

---------------------------------------------------------------------------
(* Specification of the server: one finalized vault and the requests that  *)
(* reach it.                                                               *)

\* The access windows tried: none, or the window [1, 1].
Windows == { <<{}, {}>>, <<{1}, {1}>> }

\* VaultService.finalizeVault: the chunks sorted by index, status complete.
RECURSIVE sortByIndex(_)
sortByIndex(chunks) ==
    IF chunks = << >> THEN << >>
    ELSE LET i == CHOOSE i \in 1..Len(chunks) :
                    \A j \in 1..Len(chunks) : chunks[i].index <= chunks[j].index
         IN <<chunks[i]>> \o
            sortByIndex(SubSeq(chunks, 1, i - 1) \o SubSeq(chunks, i + 1, Len(chunks)))

finalizeVault(v) ==
    [v EXCEPT !.chunks = sortByIndex(@), !.uploadStatus = "complete"]

\* The vaults a run starts from: created at time 0 by the owner, every
\* chunk uploaded, finalized.
StoredVaults(isPasswordProtected, passwordCheck) ==
    { finalizeVault(
        [initializeVault(policyMaxViews, MaxTime, w[1], w[2], MaxFailedAttempts,
                         "owner", {<<"10.0.0.1">>}, isPasswordProtected,
                         passwordCheck, 0)
            EXCEPT !.chunks = UploadedChunks]) :
      policyMaxViews \in 1..MaxViews, w \in Windows }

NoRecv == [pc |-> "off"]
NoOut == [set |-> FALSE]

Init ==
    /\ now = 0
    /\ \E v \in StoredVaults(FALSE, {}) : vaults = {v}
    /\ reqs = EmptyBag
    /\ started = 0
    /\ nViews = 0
    /\ nTokens = 0
    /\ tokens = {}
    /\ nLost = 0
    /\ nFails = 0
    /\ blobs = UploadedBlobs
    /\ recv = NoRecv
    /\ out = NoOut

Next ==
    \/ Tick
    \/ TTLExpire
    \/ GetMetadata
    \/ ReportFailed
    \/ AccessIPCheck
    \/ AccessPreCheck
    \/ AccessConsume
    \/ DownloadChunk
    \/ ExtendRead
    \/ ExtendSave
    \/ DeleteRead
    \/ DeleteBlobs
    \/ DeleteCommit
    \/ OwnerDeleteRead
    \/ OwnerDeleteSave
    \/ OwnerDeleteBlobs

Spec == Init /\ [][Next]_vars

---------------------------------------------------------------------------
(* Client-side cryptography, symbolically: a key is the pair of the        *)
(* content key and the password mixed into it; an AES-GCM ciphertext is    *)
(* the key it was sealed under and the plaintext.                          *)

PASSWORD_CHECK_PLAINTEXT == "LINKVAULT_PASSWORD_OK"

\* Key material is a bit string, held as a number; a ^ b on bit strings.
RECURSIVE xorBytes(_, _)
xorBytes(a, b) ==
    IF a = 0 /\ b = 0 THEN 0
    ELSE ((a + b) % 2) + 2 * xorBytes(a \div 2, b \div 2)

\* The raw key bytes a URL fragment decodes to.
base64UrlToBytes(keyFragment) == IF keyFragment = "k0" THEN 1 ELSE 2

\* derivePasswordKey: PBKDF2 of the password with the vault's salt.
derivePasswordKey(password) ==
    CASE password = "right" -> 4
      [] password = "wrong" -> 8
      [] OTHER -> 7

\* base64UrlToKey: the content key carried by the URL fragment, imported as
\* an AES-GCM key.
base64UrlToKey(keyFragment) ==
    [content |-> base64UrlToBytes(keyFragment), kdf |-> "none"]

\* derivePasswordKey and combineKeysWithHKDF: the content key bytes XORed
\* with the password key bytes, fed to HKDF (injective on its input).
combineKeysWithHKDF(contentKey, password) ==
    [content |-> xorBytes(contentKey.content, derivePasswordKey(password)),
     kdf |-> "hkdf"]

\* encryptChunk: [IV | ciphertext + auth tag], sealed under the key with a
\* generated IV.
encryptChunk(key, plaintext) ==
    [key |-> key, plain |-> plaintext, iv |-> "generated",
     ciphertext |-> "sealed", tag |-> "computed"]

\* Fault variant of decryptChunk: the tag is not verified.
decryptChunk_unauthenticated(key, encryptedData) == {encryptedData.plain}

\* decryptChunk: the plaintext, or nothing when the authentication tag does
\* not verify under the key for the IV and ciphertext given (the call
\* throws).
decryptChunk(key, encryptedData) ==
    IF /\ encryptedData.key = key
       /\ encryptedData.iv = "generated"
       /\ encryptedData.ciphertext = "sealed"
       /\ encryptedData.tag = "computed"
    THEN {encryptedData.plain} ELSE {}

\* btoa(...) made URL-safe: the base64url text of the bytes.
base64UrlEncode(bytes) == [encoding |-> "base64url", bytes |-> bytes]

\* atob of the text put back in base64: the bytes, or nothing when the text
\* is not base64 (atob throws).
base64UrlDecode(text) ==
    IF text.encoding = "base64url" THEN {text.bytes} ELSE {}

generatePasswordCheck(combinedKey) ==
    base64UrlEncode(encryptChunk(combinedKey, PASSWORD_CHECK_PLAINTEXT))

\* Fault variant of verifyPasswordCheck: every key is accepted.
verifyPasswordCheck_acceptsAll(combinedKey, passwordCheck) == TRUE

\* verifyPasswordCheck: decode, decrypt, compare; any throw is caught and
\* gives false.
verifyPasswordCheck(combinedKey, passwordCheck) ==
    \E bytes \in base64UrlDecode(passwordCheck) :
       decryptChunk(combinedKey, bytes) = {PASSWORD_CHECK_PLAINTEXT}

\* The sender's side (useUpload): the content key placed in the link, the
\* password chosen, and the key the chunks are sealed under.
SenderFragment == "k0"
SenderPassword == "right"

senderKey(isPasswordProtected) ==
    IF isPasswordProtected
    THEN combineKeysWithHKDF(base64UrlToKey(SenderFragment), SenderPassword)
    ELSE base64UrlToKey(SenderFragment)

\* The encrypted chunk stored under the vault's i-th blob key.
storedChunk(isPasswordProtected, i) ==
    encryptChunk(senderKey(isPasswordProtected), <<"plain", i>>)

---------------------------------------------------------------------------
(* The receiver: useDownload.fetchMetadata and downloadAndDecrypt          *)

\* What the download page submits: no password on an unprotected vault,
\* the non-empty password typed into the prompt on a protected one.
Passwords(metadata) ==
    IF metadata.isPasswordProtected THEN {"right", "wrong"} ELSE {"none"}

\* The URL fragment the receiver holds: the sender's, or a damaged one.
Fragments == {SenderFragment, "kx"}

\* Step 1 and the key derivation of step 2.
decryptionKey(metadata, keyFragment, password) ==
    IF password # "none" /\ metadata.isPasswordProtected
    THEN combineKeysWithHKDF(base64UrlToKey(keyFragment), password)
    ELSE base64UrlToKey(keyFragment)

\* Step 2's pre-flight check: "skipped", "passed" or "failed".
preflight(metadata, keyFragment, password) ==
    IF password # "none" /\ metadata.isPasswordProtected
       /\ metadata.passwordCheck # {}
    THEN IF \A c \in metadata.passwordCheck :
               verifyPasswordCheck(decryptionKey(metadata, keyFragment, password), c)
         THEN "passed" ELSE "failed"
    ELSE "skipped"

\* Step 6: the index of the first chunk whose decryption throws, if any.
firstDecryptFailure(metadata, key) ==
    LET bad == {i \in 0..(Len(UploadedChunks) - 1) :
                   decryptChunk(key, storedChunk(metadata.isPasswordProtected, i)) = {}}
    IN IF bad = {} THEN {}
       ELSE {CHOOSE i \in bad : \A j \in bad : i <= j}

\* Fault variant of the catch block: every decryption failure is reported.
reportsDecryptFailure_always(metadata, i) == TRUE

\* Step 6's catch block: is the failure at chunk i reported to the server?
reportsDecryptFailure(metadata, i) ==
    i = 0 /\ metadata.isPasswordProtected /\ metadata.passwordCheck = {}

Fail(cause) == [recv EXCEPT !.pc = "error", !.cause = cause]

RecvFetchMetadata ==
    /\ recv.pc = "start"
    /\ recv' = IF getVaultMetadata.pass
               THEN [recv EXCEPT !.pc = "ready"]
               ELSE Fail("metadata")
    /\ UNCHANGED <<server, now, out>>

\* The user starts downloadAndDecrypt; steps 1 and 2 up to the first
\* request to the server.
RecvSubmit ==
    /\ recv.pc = "ready"
    /\ recv.attempts < MaxAttempts
    /\ \E keyFragment \in Fragments, password \in Passwords(recv.metadata) :
          LET check == preflight(recv.metadata, keyFragment, password)
          IN recv' = [recv EXCEPT
                        !.pc = IF check = "failed" THEN "report" ELSE "access",
                        !.attempts = @ + 1,
                        !.password = password,
                        !.key = decryptionKey(recv.metadata, keyFragment, password),
                        !.check = check,
                        !.viewed = FALSE,
                        !.reached = FALSE,
                        !.counted = FALSE,
                        !.cause = IF check = "failed" THEN "password_check"
                                                      ELSE "none"]
    /\ UNCHANGED <<server, now, out>>

\* Step 2, failed check: reportFailedAccess (its failure is swallowed), then
\* throw 'Wrong password'.
\* The request may fail before it reaches the handler (network, the global
\* rate limiter); the catch block swallows that too.
RecvReportCheck ==
    /\ recv.pc = "report"
    /\ \E reached \in BOOLEAN :
          /\ IF reached THEN ReportFailedHandler ELSE UNCHANGED server
          /\ recv' = [recv EXCEPT !.pc = "error", !.reached = reached,
                                  !.counted = reached /\ recordFailedAccess.pass]
    /\ UNCHANGED <<now, out>>

\* Step 3: apiService.accessVault, the server's three awaits.
RecvAccessIPCheck ==
    /\ recv.pc = "access"
    /\ \E clientIP \in IPs :
          /\ AccessIPCheckHandler(clientIP)
          /\ recv' = IF accessIPCheck(clientIP).pass
                     THEN [recv EXCEPT !.pc = "precheck"]
                     ELSE Fail("access")
    /\ UNCHANGED <<now, out>>

RecvAccessPreCheck ==
    /\ recv.pc = "precheck"
    /\ AccessPreCheckHandler
    /\ recv' = IF accessPolicyCheck.pass
               THEN [recv EXCEPT !.pc = "consume"]
               ELSE Fail("access")
    /\ UNCHANGED <<now, out>>

RecvAccessConsume ==
    /\ recv.pc = "consume"
    /\ AccessConsumeHandler
    /\ recv' = IF accessResponse(consumeView).pass
               THEN [recv EXCEPT !.pc = "download", !.viewed = TRUE]
               ELSE Fail("access")
    /\ UNCHANGED <<now, out>>

\* Steps 4 and 5: the chunks are fetched (VaultService.downloadChunk finds
\* the complete vault or answers 403) and their hashes and Merkle root match.
RecvDownload ==
    /\ recv.pc = "download"
    /\ recv' = IF FindComplete = {} THEN Fail("download")
               ELSE [recv EXCEPT !.pc = "decrypt"]
    /\ UNCHANGED <<server, now, out>>

\* Step 6: decrypt the chunks in order; the catch block decides whether the
\* failure is reported.
RecvDecrypt ==
    /\ recv.pc = "decrypt"
    /\ LET failure == firstDecryptFailure(recv.metadata, recv.key)
       IN recv' = IF failure = {} THEN [recv EXCEPT !.pc = "done"]
                  ELSE IF \E i \in failure : reportsDecryptFailure(recv.metadata, i)
                      THEN [recv EXCEPT !.pc = "reportDecrypt", !.cause = "decrypt"]
                  ELSE Fail("decrypt")
    /\ UNCHANGED <<server, now, out>>

RecvReportDecrypt ==
    /\ recv.pc = "reportDecrypt"
    /\ \E reached \in BOOLEAN :
          /\ IF reached THEN ReportFailedHandler ELSE UNCHANGED server
          /\ recv' = [recv EXCEPT !.pc = "error", !.reached = reached,
                                  !.counted = reached /\ recordFailedAccess.pass]
    /\ UNCHANGED <<now, out>>

\* handlePasswordSubmit's catch: a message about the password or the
\* decryption brings the prompt back (retryFromError keeps the metadata).
RecvRetry ==
    /\ recv.pc = "error"
    /\ recv.cause \in {"password_check", "decrypt"}
    /\ recv' = [recv EXCEPT !.pc = "ready"]
    /\ UNCHANGED <<server, now, out>>

\* The receiver opening the link of vault v.
NewRecv(v) ==
    [ pc |-> "start", metadata |-> v.cryptoParams, attempts |-> 0,
      password |-> "none", key |-> base64UrlToKey(SenderFragment),
      check |-> "skipped", viewed |-> FALSE, reached |-> FALSE,
      counted |-> FALSE,
      cause |-> "none" ]

\* A vault is unprotected, protected with the check value the upload hook
\* stores, or protected without one (a record created before the check
\* value existed).
InitRecv ==
    /\ now = 0
    /\ \E isPasswordProtected \in BOOLEAN,
          passwordCheck \in {{}, {generatePasswordCheck(senderKey(TRUE))}} :
          /\ isPasswordProtected \/ passwordCheck = {}
          /\ \E v \in StoredVaults(isPasswordProtected, passwordCheck) :
                /\ vaults = {v}
                /\ recv = NewRecv(v)
    /\ reqs = EmptyBag
    /\ started = 0
    /\ nViews = 0
    /\ nTokens = 0
    /\ tokens = {}
    /\ nLost = 0
    /\ nFails = 0
    /\ blobs = UploadedBlobs
    /\ out = NoOut

NextRecv ==
    \/ RecvFetchMetadata
    \/ RecvSubmit
    \/ RecvReportCheck
    \/ RecvAccessIPCheck
    \/ RecvAccessPreCheck
    \/ RecvAccessConsume
    \/ RecvDownload
    \/ RecvDecrypt
    \/ RecvReportDecrypt
    \/ RecvRetry
    \/ Tick
    \/ TTLExpire
    \/ ReportFailed
    \/ DeleteRead
    \/ DeleteBlobs
    \/ DeleteCommit

SpecRecv == InitRecv /\ [][NextRecv]_vars

---------------------------------------------------------------------------
(* Specification of concurrent access requests alone, on a vault at any    *)
(* clock value.                                                            *)

InitRace ==
    /\ now \in 0..MaxTime
    /\ \E v \in StoredVaults(FALSE, {}) : vaults = {v}
    /\ reqs = EmptyBag
    /\ started = 0
    /\ nViews = 0
    /\ nTokens = 0
    /\ tokens = {}
    /\ nLost = 0
    /\ nFails = 0
    /\ blobs = UploadedBlobs
    /\ recv = NoRecv
    /\ out = NoOut

NextRace ==
    \/ AccessIPCheck
    \/ AccessPreCheck
    \/ AccessConsume

SpecRace == InitRace /\ [][NextRace]_vars

---------------------------------------------------------------------------
(* Specification of the IP restriction: one client at a fixed address      *)
(* sends access requests to a vault with or without a list of allowed      *)
(* addresses, while the clock runs.                                        *)

ClientAt(clientIP) == [pc |-> "client", clientIP |-> clientIP]

InitIP ==
    /\ now = 0
    /\ \E v \in StoredVaults(FALSE, {}), allowedIPs \in {{}, {<<"10.0.0.1">>}} :
          vaults = {[v EXCEPT !.allowedIPs = allowedIPs]}
    /\ \E clientIP \in IPs : recv = ClientAt(clientIP)
    /\ reqs = EmptyBag
    /\ started = 0
    /\ nViews = 0
    /\ nTokens = 0
    /\ tokens = {}
    /\ nLost = 0
    /\ nFails = 0
    /\ blobs = UploadedBlobs
    /\ out = NoOut

ClientAccessIPCheck ==
    /\ AccessIPCheckHandler(recv.clientIP)
    /\ UNCHANGED <<now, recv, out>>

NextIP ==
    \/ Tick
    \/ ClientAccessIPCheck
    \/ AccessPreCheck
    \/ AccessConsume

SpecIP == InitIP /\ [][NextIP]_vars

---------------------------------------------------------------------------
(* Specification of isAccessible as a function of the document and the     *)
(* clock: the document's policy fields and counters take every value.      *)

WindowBounds == {{}} \cup {{t} : t \in 0..MaxTime}

AnyVaults ==
    { [v EXCEPT !.isDeleted = d, !.expiresAt = e, !.remainingViews = r,
                !.failedAttempts = f, !.policy.accessWindowStart = ws,
                !.policy.accessWindowEnd = we] :
      v \in StoredVaults(FALSE, {}), d \in BOOLEAN, e \in 1..MaxTime,
      r \in 0..MaxViews, f \in 0..MaxFailedAttempts,
      ws \in WindowBounds, we \in WindowBounds }

InitAcc ==
    /\ now \in 0..MaxTime
    /\ \E v \in AnyVaults : vaults = {v}
    /\ reqs = EmptyBag
    /\ started = 0
    /\ nViews = 0
    /\ nTokens = 0
    /\ tokens = {}
    /\ nLost = 0
    /\ nFails = 0
    /\ blobs = UploadedBlobs
    /\ recv = NoRecv
    /\ out = NoOut

CheckAccessibility ==
    /\ \E v \in vaults : out' = [set |-> TRUE, access |-> isAccessible(v, now)]
    /\ UNCHANGED <<server, now, recv>>

NextAcc == CheckAccessibility

SpecAcc == InitAcc /\ [][NextAcc]_vars

---------------------------------------------------------------------------
(* Specification of the failed-attempt report on a document whose policy   *)
(* fields and counters take every value, at any clock value.               *)

NextFail == ReportFailed

SpecFail == InitAcc /\ [][NextFail]_vars

---------------------------------------------------------------------------
(* The Merkle root over the chunk hashes.  A string is the sequence of its *)
(* symbols, `+` is concatenation, and a SHA-256 digest is a string of      *)
(* fixed width; null is the empty set and a root h the set {h}.            *)

MaxLeaves == 4

\* Encrypted chunks as byte strings, and their hex digests: the leaves of
\* the tree.
EncryptedChunks == {<<data>> : data \in Data \cup {"c"}}
LeafHashes == {sha256Hex(encrypted) : encrypted \in EncryptedChunks}

HashLists == UNION {[1..n -> LeafHashes] : n \in 0..MaxLeaves}

\* Fault variant of rightOf: the right neighbour is ignored.
rightOf_alwaysLeft(level, i) == level[i]

\* `level[i + 1] || left`: a missing or empty right neighbour is replaced by
\* the left node.
rightOf(level, i) ==
    IF i + 1 <= Len(level) /\ level[i + 1] # <<>> THEN level[i + 1]
                                                  ELSE level[i]

\* Fault variant of nextLevel: an unpaired last node is paired with the
\* first node of the level.
nextLevel_pairsWithFirst(level) ==
    [k \in 1..((Len(level) + 1) \div 2) |->
        IF 2 * k <= Len(level)
        THEN sha256Hex(level[2 * k - 1] \o level[2 * k])
        ELSE sha256Hex(level[2 * k - 1] \o level[1])]

\* One pass of the for loop: the hashes of the pairs (i, i + 1), i even.
nextLevel(level) ==
    [k \in 1..((Len(level) + 1) \div 2) |->
        sha256Hex(level[2 * k - 1] \o rightOf(level, 2 * k - 1))]

\* The while loop: `while (level.length > 1) level = nextLevel`.
RECURSIVE whileLevel(_)
whileLevel(level) ==
    IF Len(level) > 1 THEN whileLevel(nextLevel(level)) ELSE level

\* computeMerkleRoot of the client's cryptoService.
computeMerkleRoot(hashes) ==
    IF Len(hashes) = 0 THEN {}
    ELSE IF Len(hashes) = 1 THEN {hashes[1]}
    ELSE {whileLevel(hashes)[1]}

\* computeMerkleRoot of the backend's utils/helpers.js: the same loop with
\* crypto.createHash('sha256').update(left + right).digest('hex').
helpersComputeMerkleRoot(hashes) ==
    IF Len(hashes) = 0 THEN {}
    ELSE IF Len(hashes) = 1 THEN {hashes[1]}
    ELSE {whileLevel(hashes)[1]}

\* The hash list with the leaves at positions i and j exchanged.
swapLeaves(hashes, i, j) ==
    [k \in 1..Len(hashes) |->
        IF k = i THEN hashes[j] ELSE IF k = j THEN hashes[i] ELSE hashes[k]]

MerkleOut(hashes) ==
    [set |-> FALSE, hashes |-> hashes, clientDone |-> FALSE, client |-> {},
     helpersDone |-> FALSE, helpers |-> {}, swapped |-> FALSE, before |-> {}]

InitMerkle ==
    /\ now = 0
    /\ vaults = {}
    /\ reqs = EmptyBag
    /\ started = 0
    /\ nViews = 0
    /\ nTokens = 0
    /\ tokens = {}
    /\ nLost = 0
    /\ nFails = 0
    /\ blobs = UploadedBlobs
    /\ recv = NoRecv
    /\ \E hashes \in HashLists : out = MerkleOut(hashes)

\* The client computes the root of the list (useUpload, useDownload).
ClientMerkleRoot ==
    /\ ~out.clientDone
    /\ out' = [out EXCEPT !.clientDone = TRUE,
                          !.client = computeMerkleRoot(out.hashes)]
    /\ UNCHANGED <<server, now, recv>>

HelpersMerkleRoot ==
    /\ ~out.helpersDone
    /\ out' = [out EXCEPT !.helpersDone = TRUE,
                          !.helpers = helpersComputeMerkleRoot(out.hashes)]
    /\ UNCHANGED <<server, now, recv>>

\* The client computes the root of the list with two leaves of distinct
\* hashes exchanged.
SwapLeaves ==
    /\ out.clientDone /\ ~out.swapped
    /\ \E i \in 1..Len(out.hashes), j \in 1..Len(out.hashes) :
          /\ out.hashes[i] # out.hashes[j]
          /\ out' = [out EXCEPT
                        !.hashes = swapLeaves(out.hashes, i, j),
                        !.client = computeMerkleRoot(swapLeaves(out.hashes, i, j)),
                        !.helpersDone = FALSE, !.helpers = {},
                        !.swapped = TRUE, !.before = out.client]
    /\ UNCHANGED <<server, now, recv>>

NextMerkle ==
    \/ ClientMerkleRoot
    \/ HelpersMerkleRoot
    \/ SwapLeaves

SpecMerkle == InitMerkle /\ [][NextMerkle]_vars

---------------------------------------------------------------------------
(* Specification of the cryptoService functions on their own: a chunk or a *)
(* password check value is produced under one key, possibly altered on the *)
(* way, and opened under another key.                                      *)

\* The passwords of the specification: the sender's, another one, and one
\* whose derived key differs from the sender's by the difference of the two
\* content keys.
CryptoPasswords == {"right", "wrong", "other"}

\* The keys in use: content keys, and content keys combined with a password.
CryptoKeys ==
    {base64UrlToKey(keyFragment) : keyFragment \in Fragments}
       \cup {combineKeysWithHKDF(base64UrlToKey(keyFragment), password) :
                keyFragment \in Fragments, password \in CryptoPasswords}

CryptoPlaintexts == {"p0", "p1", PASSWORD_CHECK_PLAINTEXT}

\* What may happen to [IV | ciphertext + tag] in storage or in transit.
modified(encryptedData, part) ==
    CASE part = "iv" -> [encryptedData EXCEPT !.iv = "modified"]
      [] part = "ciphertext" -> [encryptedData EXCEPT !.ciphertext = "modified"]
      [] part = "tag" -> [encryptedData EXCEPT !.tag = "modified"]
      [] OTHER -> encryptedData

\* Check values that generatePasswordCheck did not produce for key k: text
\* that is not base64, the encoding of altered bytes, and the encoding of
\* another plaintext sealed under k.
MalformedChecks(k) ==
    {[encoding |-> "invalid", bytes |-> encryptChunk(k, PASSWORD_CHECK_PLAINTEXT)]}
       \cup {base64UrlEncode(modified(encryptChunk(k, PASSWORD_CHECK_PLAINTEXT), part)) :
                part \in {"iv", "ciphertext", "tag"}}
       \cup {base64UrlEncode(encryptChunk(k, "p0"))}

InitCrypto ==
    /\ now = 0
    /\ vaults = {}
    /\ reqs = EmptyBag
    /\ started = 0
    /\ nViews = 0
    /\ nTokens = 0
    /\ tokens = {}
    /\ nLost = 0
    /\ nFails = 0
    /\ blobs = UploadedBlobs
    /\ recv = NoRecv
    /\ \E k1 \in CryptoKeys, k2 \in CryptoKeys, p \in CryptoPlaintexts :
          out = [set |-> FALSE, pc |-> "start", k1 |-> k1, k2 |-> k2, p |-> p,
                 data |-> {}, altered |-> FALSE, result |-> {}, valid |-> FALSE]

EncryptChunk ==
    /\ out.pc = "start"
    /\ out' = [out EXCEPT !.pc = "chunk", !.data = {encryptChunk(out.k1, out.p)}]
    /\ UNCHANGED <<server, now, recv>>

ModifyChunk ==
    /\ out.pc = "chunk"
    /\ \E part \in {"iv", "ciphertext", "tag"} :
          out' = [out EXCEPT !.data = {modified(d, part) : d \in out.data},
                             !.altered = TRUE]
    /\ UNCHANGED <<server, now, recv>>

DecryptChunk ==
    /\ out.pc = "chunk"
    /\ out' = [out EXCEPT !.pc = "decrypted",
                          !.result = UNION {decryptChunk(out.k2, d) : d \in out.data}]
    /\ UNCHANGED <<server, now, recv>>

GeneratePasswordCheck ==
    /\ out.pc = "start"
    /\ out' = [out EXCEPT !.pc = "check", !.data = {generatePasswordCheck(out.k1)}]
    /\ UNCHANGED <<server, now, recv>>

MalformCheck ==
    /\ out.pc = "check"
    /\ ~out.altered
    /\ \E c \in MalformedChecks(out.k1) :
          out' = [out EXCEPT !.data = {c}, !.altered = TRUE]
    /\ UNCHANGED <<server, now, recv>>

VerifyPasswordCheck ==
    /\ out.pc = "check"
    /\ out' = [out EXCEPT !.pc = "verified",
                          !.valid = \A c \in out.data : verifyPasswordCheck(out.k2, c)]
    /\ UNCHANGED <<server, now, recv>>

NextCrypto ==
    \/ EncryptChunk
    \/ ModifyChunk
    \/ DecryptChunk
    \/ GeneratePasswordCheck
    \/ MalformCheck
    \/ VerifyPasswordCheck

SpecCrypto == InitCrypto /\ [][NextCrypto]_vars

---------------------------------------------------------------------------
(* Integrity verification by the receiver (useDownload.downloadAndDecrypt, *)
(* steps 3 to 5) against a server that answers whatever it likes: the      *)
(* sender hashed its encrypted chunks and published their Merkle root,     *)
(* which reaches the receiver unmodified.                                  *)

\* The encrypted chunks of a sender: pairwise distinct, since each is sealed
\* under a fresh IV.
SentLists ==
    {sent \in UNION {[1..n -> EncryptedChunks] : n \in 1..(MaxLeaves - 1)} :
        \A i \in 1..Len(sent), j \in 1..Len(sent) : sent[i] = sent[j] => i = j}

\* useUpload steps 4 to 6: the hash of each encrypted chunk, and their root.
chunkHashes(encryptedChunks) ==
    [i \in 1..Len(encryptedChunks) |-> sha256Hex(encryptedChunks[i])]

\* The chunk descriptors an access response may carry.
Descriptors(sent) ==
    [index : 0..(Len(sent) - 1), hash : {sha256Hex(sent[i]) : i \in 1..Len(sent)}]

InitVerify ==
    /\ now = 0
    /\ vaults = {}
    /\ reqs = EmptyBag
    /\ started = 0
    /\ nViews = 0
    /\ nTokens = 0
    /\ tokens = {}
    /\ nLost = 0
    /\ nFails = 0
    /\ blobs = UploadedBlobs
    /\ \E sent \in SentLists :
          out = [set |-> FALSE, sent |-> sent,
                 merkleRoot |-> computeMerkleRoot(chunkHashes(sent))]
    /\ recv = [pc |-> "access", chunks |-> <<>>, encryptedChunks |-> <<>>,
               downloadedHashes |-> <<>>, cause |-> "none"]

\* Step 3: `const { chunks } = accessResult.data`.
VerifyAccess ==
    /\ recv.pc = "access"
    /\ \E n \in 0..MaxLeaves : \E chunks \in [1..n -> Descriptors(out.sent)] :
          recv' = [recv EXCEPT !.pc = "download", !.chunks = chunks]
    /\ UNCHANGED <<server, now, out>>

\* Fault variant of hashMatches: the downloaded bytes are not compared.
hashMatches_unchecked(chunkData, descriptor) == TRUE

\* Step 4: `hash !== chunks[i].hash` throws.
hashMatches(chunkData, descriptor) == sha256Hex(chunkData) = descriptor.hash

\* Step 4, one pass of the loop: the server returns any bytes it holds.
VerifyChunk ==
    /\ recv.pc = "download"
    /\ Len(recv.encryptedChunks) < Len(recv.chunks)
    /\ \E chunkData \in EncryptedChunks :
          LET i == Len(recv.encryptedChunks) + 1
          IN recv' = IF hashMatches(chunkData, recv.chunks[i])
                     THEN [recv EXCEPT
                             !.encryptedChunks = Append(@, chunkData),
                             !.downloadedHashes = Append(@, sha256Hex(chunkData))]
                     ELSE [recv EXCEPT
                             !.encryptedChunks = Append(@, chunkData),
                             !.downloadedHashes = Append(@, sha256Hex(chunkData)),
                             !.pc = "error", !.cause = "chunk_hash"]
    /\ UNCHANGED <<server, now, out>>

\* Step 5: the root of the downloaded hashes against metadata.merkleRoot;
\* step 6 follows when they are equal.
VerifyMerkle ==
    /\ recv.pc = "download"
    /\ Len(recv.encryptedChunks) = Len(recv.chunks)
    /\ recv' = IF computeMerkleRoot(recv.downloadedHashes) = out.merkleRoot
               THEN [recv EXCEPT !.pc = "decrypt"]
               ELSE [recv EXCEPT !.pc = "error", !.cause = "merkle"]
    /\ UNCHANGED <<server, now, out>>

NextVerify ==
    \/ VerifyAccess
    \/ VerifyChunk
    \/ VerifyMerkle

SpecVerify == InitVerify /\ [][NextVerify]_vars

---------------------------------------------------------------------------
(* The upload phase: POST /:vaultId/chunks, POST /:vaultId/finalize and    *)
(* DELETE /:vaultId/upload.  Each handler reads the document, works on its *)
(* in-memory copy and writes with vault.save().  save() sends the changes  *)
(* of the copy: a pushed element as $push (the version key is incremented, *)
(* not tested), an element assigned by position as $set of that position   *)
(* (the version key is tested), a sorted array as $set of the whole array  *)
(* (the version key is tested and incremented), a scalar as $set.          *)

\* Requests that do not count towards MaxReqs: at most one of the kind is
\* in flight.
StartOne(op, pc, snap) ==
    /\ \A q \in BagToSet(reqs) : q.op # op
    /\ reqs' = reqs (+) SetToBag({Req(op, pc, snap)})
    /\ started' = started

\* Vault.findOne({ vaultId, uploadStatus: 'pending', isDeleted: false })
FindPending == {v \in vaults : v.uploadStatus = "pending" /\ ~v.isDeleted}

\* Fault variant of uploadLookup: the index is not checked against the range.
uploadLookup_noRange(chunkIndex) ==
    IF FindPending = {} THEN Reply(404, "VAULT_NOT_FOUND", "none")
    ELSE Pass(FALSE)

\* VaultService.uploadChunk up to the write to the blob store.
uploadLookup(chunkIndex) ==
    IF FindPending = {} THEN Reply(404, "VAULT_NOT_FOUND", "none")
    ELSE IF \E v \in FindPending :
               chunkIndex < 0 \/ chunkIndex >= v.expectedChunks
        THEN Reply(400, "INVALID_CHUNK_INDEX", "none")
    ELSE Pass(FALSE)

\* Fault variant of findIndex: the index is never found.
findIndex_never(chunks, chunkIndex) == {}

\* vault.chunks.findIndex((c) => c.index === chunkIndex): the positions
\* found (none, or the first one).
findIndex(chunks, chunkIndex) ==
    LET found == {i \in 1..Len(chunks) : chunks[i].index = chunkIndex}
    IN IF found = {} THEN {}
       ELSE {CHOOSE i \in found : \A j \in found : i <= j}

\* What save() writes for the upsert made on the copy `doc` read earlier.
uploadChanges(doc, chunkIndex, data, hash) ==
    [ entry   |-> chunkEntry(chunkIndex, data, hash),
      at      |-> findIndex(doc.chunks, chunkIndex),
      version |-> doc.version ]

\* The stored document v after that save(), or nothing when save() throws
\* (VersionError).
uploadSave(v, ch) ==
    IF ch.at = {}
    THEN {[v EXCEPT !.chunks = Append(@, ch.entry), !.version = @ + 1]}
    ELSE IF v.version # ch.version THEN {}
    ELSE {[v EXCEPT !.chunks[CHOOSE i \in ch.at : TRUE] = ch.entry]}

UploadRead ==
    /\ \E chunkIndex \in -1..MaxChunks, data \in Data :
          IF uploadLookup(chunkIndex).pass
          THEN \E v \in FindPending :
                  Start("upload", "blob",
                        {uploadChanges(v, chunkIndex, data, sha256Hex(data))
                            @@ [data |-> data]})
          ELSE UNCHANGED <<reqs, started>>
    /\ UNCHANGED <<vaults, nViews, nTokens, tokens, nLost, nFails, blobs, now, recv, out>>

UploadBlob ==
    /\ \E q \in InFlight("upload", "blob") :
          /\ Goto(q, "save")
          /\ \E ch \in q.snap : blobs' = putBlob(blobs, ch.entry.blobKey, ch.data)
    /\ UNCHANGED <<vaults, nViews, nTokens, tokens, nLost, nFails, now, recv, out>>

\* save() on a removed document, or a failed version test, writes nothing.
UploadSave ==
    /\ \E q \in InFlight("upload", "save") :
          /\ End(q)
          /\ \E ch \in q.snap :
                vaults' = {IF uploadSave(v, ch) = {} THEN v
                           ELSE CHOOSE w \in uploadSave(v, ch) : TRUE : v \in vaults}
    /\ UNCHANGED <<nViews, nTokens, tokens, nLost, nFails, blobs, now, recv, out>>

\* Fault variant of finalizeLookup: the number of chunks is not checked.
finalizeLookup_noCount ==
    IF FindPending = {} THEN Reply(404, "VAULT_NOT_FOUND", "none")
    ELSE Pass(FALSE)

\* VaultService.finalizeVault up to save().
finalizeLookup ==
    IF FindPending = {} THEN Reply(404, "VAULT_NOT_FOUND", "none")
    ELSE IF \E v \in FindPending : Len(v.chunks) # v.expectedChunks
        THEN Reply(400, "INCOMPLETE_UPLOAD", "none")
    ELSE Pass(FALSE)

\* The stored document v after finalize's save() of the copy `doc`, or
\* nothing when save() throws (VersionError).
finalizeSave(v, doc) ==
    IF v.version # doc.version THEN {}
    ELSE {[v EXCEPT !.chunks = finalizeVault(doc).chunks,
                    !.uploadStatus = finalizeVault(doc).uploadStatus,
                    !.version = @ + 1]}

FinalizeRead ==
    /\ IF finalizeLookup.pass
       THEN \E v \in FindPending :
               StartOne("finalize", "save",
                        {[chunks |-> v.chunks, uploadStatus |-> v.uploadStatus,
                          version |-> v.version]})
       ELSE UNCHANGED <<reqs, started>>
    /\ UNCHANGED <<vaults, nViews, nTokens, tokens, nLost, nFails, blobs, now, recv, out>>

FinalizeSave ==
    /\ \E q \in InFlight("finalize", "save") :
          /\ End(q)
          /\ \E doc \in q.snap :
                vaults' = {IF finalizeSave(v, doc) = {} THEN v
                           ELSE CHOOSE w \in finalizeSave(v, doc) : TRUE : v \in vaults}
    /\ UNCHANGED <<nViews, nTokens, tokens, nLost, nFails, blobs, now, recv, out>>

\* Vault.findOne({ vaultId, uploadStatus: 'pending' })
FindPendingAny == {v \in vaults : v.uploadStatus = "pending"}

abortLookup ==
    IF FindPendingAny = {} THEN Reply(404, "VAULT_NOT_FOUND", "none")
    ELSE Pass(FALSE)

\* Fault variant of abortSave: the vault is not marked deleted.
abortSave_notDeleted(v) == [v EXCEPT !.uploadStatus = "failed"]

\* vault.uploadStatus = 'failed'; vault.isDeleted = true; vault.save().
abortSave(v) == [v EXCEPT !.uploadStatus = "failed", !.isDeleted = TRUE]

AbortRead ==
    /\ IF abortLookup.pass
       THEN \E v \in FindPendingAny : StartOne("abort", "blobs", {blobKeysOf(v)})
       ELSE UNCHANGED <<reqs, started>>
    /\ UNCHANGED <<vaults, nViews, nTokens, tokens, nLost, nFails, blobs, now, recv, out>>

AbortBlobs ==
    /\ \E q \in InFlight("abort", "blobs") :
          /\ Goto(q, "save")
          /\ blobs' = deleteVaultBlobs(blobs, UNION q.snap)
    /\ UNCHANGED <<vaults, nViews, nTokens, tokens, nLost, nFails, now, recv, out>>

AbortSave ==
    /\ \E q \in InFlight("abort", "save") : End(q)
    /\ vaults' = {abortSave(v) : v \in vaults}
    /\ UNCHANGED <<nViews, nTokens, tokens, nLost, nFails, blobs, now, recv, out>>

---------------------------------------------------------------------------
(* Specification of the upload phase: a vault of one view created at time *)
(* 0 whose first chunks may already be uploaded, then uploads, finalize,   *)
(* abort and the receivers' requests.                                      *)

\* The document and the blob store after chunks 0..k-1 have been uploaded
\* one after the other.
RECURSIVE uploadedPrefix(_, _)
uploadedPrefix(v, k) ==
    IF k = 0 THEN v
    ELSE LET u == uploadedPrefix(v, k - 1)
             ch == uploadChanges(u, k - 1, "a", sha256Hex("a"))
         IN CHOOSE w \in uploadSave(u, ch) : TRUE

prefixBlobs(k) ==
    [key \in BlobKeys |->
        IF \E i \in 0..(k - 1) : key = blobKeyOf(i) THEN "a" ELSE NoBlob]

InitUpload ==
    /\ now = 0
    /\ \E expectedChunks \in 1..MaxChunks :
          \E k \in 0..expectedChunks :
             /\ vaults = {uploadedPrefix(
                    [initializeVault(1, MaxTime, {}, {},
                                     MaxFailedAttempts, "owner", {}, FALSE, {}, 0)
                        EXCEPT !.expectedChunks = expectedChunks], k)}
             /\ blobs = prefixBlobs(k)
    /\ reqs = EmptyBag
    /\ started = 0
    /\ nViews = 0
    /\ nTokens = 0
    /\ tokens = {}
    /\ nLost = 0
    /\ nFails = 0
    /\ recv = NoRecv
    /\ out = NoOut

NextUpload ==
    \/ UploadRead
    \/ UploadBlob
    \/ UploadSave
    \/ FinalizeRead
    \/ FinalizeSave
    \/ AbortRead
    \/ AbortBlobs
    \/ AbortSave
    \/ GetMetadata
    \/ AccessIPCheck
    \/ AccessPreCheck
    \/ AccessConsume
    \/ DownloadChunk

SpecUpload == InitUpload /\ [][NextUpload]_vars

---------------------------------------------------------------------------
(* The Cleanup Reconciler: CleanupService (the cron callback and runOnce)  *)
(* and VaultService.cleanupExpiredVaults.  The service's fields and the    *)
(* locals of each pass are held in `out`.                                  *)

\* One hour, the age after which a pending upload is stale.
stalePendingAge == 2

\* Fault variant of cleanupFilter: every pending upload is selected.
cleanupFilter_anyPending(v, t) == v.expiresAt <= t \/ v.isDeleted \/ v.uploadStatus = "failed" \/ v.uploadStatus = "pending"

\* The $or of the selection query, with `now` = t.
cleanupFilter(v, t) ==
    \/ v.expiresAt <= t /\ ~v.isDeleted
    \/ v.isDeleted
    \/ v.uploadStatus = "failed"
    \/ v.uploadStatus = "pending" /\ v.createdAt <= t - stalePendingAge

\* storageService.deleteVaultBlobs when deleteBlob fails on the keys in
\* `failed`: each failure is caught and logged inside deleteBlob.
deleteVaultBlobsExcept(store, blobKeys, failed) ==
    deleteVaultBlobs(store, blobKeys \ failed)

\* The two callers of the sweep.
Callers == {"cron", "once"}

\* A selected document as the loop holds it: its _id, its blob keys and the
\* fields it had when the query ran.
sweepItem(id, blobKeys, doc) == [id |-> id, blobKeys |-> blobKeys, doc |-> doc]

\* The result of Vault.find: the matching documents, in either order.  A
\* second vault w, expired and without chunks, stands for the rest of the
\* collection.
expiredVaults(t, other) ==
    LET mine == {sweepItem(VaultId, blobKeysOf(v), {v}) :
                    v \in {w \in vaults : cleanupFilter(w, t)}}
        rest == IF other THEN {sweepItem(OtherVaultId, {}, {})} ELSE {}
        all == mine \cup rest
    IN {list \in UNION {[1..n -> all] : n \in 0..2} :
           /\ Len(list) = Cardinality(all)
           /\ \A x \in all : \E i \in 1..Len(list) : list[i] = x}

IdlePass ==
    [pc |-> "idle", now |-> 0, queue |-> <<>>, total |-> 0, cleaned |-> 0, threw |-> FALSE]

\* The state after construction: no task, isRunning = false.
NewCleanupService(faults, other) ==
    [set |-> FALSE, task |-> FALSE, isRunning |-> FALSE,
     pass |-> [c \in Callers |-> IdlePass],
     faults |-> faults, other |-> other]

\* Fault variant of entersPass: the flag is not consulted.
entersPass_unguarded(service) == TRUE

\* `if (this.isRunning) return`: does the caller go on to the sweep?
entersPass(service) == ~service.isRunning

Enter(service, c) ==
    IF entersPass(service)
    THEN [service EXCEPT !.isRunning = TRUE,
                         !.pass[c] = [IdlePass EXCEPT !.pc = "find"]]
    ELSE [service EXCEPT !.pass[c] = IdlePass]

\* CleanupService.start: schedule the task, then runOnce up to its first
\* await.
StartCleanup ==
    /\ ~out.task
    /\ out' = Enter([out EXCEPT !.task = TRUE], "once")
    /\ UNCHANGED <<server, now, recv>>

\* The cron callback fires.
CronTick ==
    /\ out.task
    /\ out.pass["cron"].pc = "idle"
    /\ out' = Enter(out, "cron")
    /\ UNCHANGED <<server, now, recv>>

\* `await Vault.find(...)`: the list, or a rejection that leaves
\* cleanupExpiredVaults.
SweepFind ==
    /\ \E c \in Callers :
          /\ out.pass[c].pc = "find"
          /\ \/ \E list \in expiredVaults(now, out.other) :
                   out' = [out EXCEPT !.pass[c].pc = "loop", !.pass[c].now = now,
                                      !.pass[c].queue = list,
                                      !.pass[c].total = Len(list)]
             \/ /\ out.faults
                /\ out' = [out EXCEPT !.pass[c].pc = "finally", !.pass[c].threw = TRUE]
    /\ UNCHANGED <<server, now, recv>>

\* Fault variant of afterBlobs: a failed blob deletion rejects, and the catch
\* block skips the record.
afterBlobs_fatal(pass, failed) == IF failed = {} THEN [pass EXCEPT !.pc = "record"] ELSE [pass EXCEPT !.pc = "loop", !.queue = Tail(@)]

\* deleteVaultBlobs resolves whatever deleteBlob met (allSettled over calls
\* that catch their own errors): the loop body goes on to deleteOne.
afterBlobs(pass, failed) == [pass EXCEPT !.pc = "record"]

\* The loop body up to deleteVaultBlobs, which never rejects.
SweepBlobs ==
    /\ \E c \in Callers :
          /\ out.pass[c].pc = "loop"
          /\ out.pass[c].queue # <<>>
          /\ LET vault == Head(out.pass[c].queue)
             IN \E failed \in SUBSET vault.blobKeys :
                   /\ failed # {} => out.faults
                   /\ blobs' = deleteVaultBlobsExcept(blobs, vault.blobKeys, failed)
                   /\ out' = [out EXCEPT !.pass[c] = afterBlobs(@, failed)]
    /\ UNCHANGED <<vaults, reqs, started, nViews, nTokens, tokens, nLost, nFails, now, recv>>

\* Fault variant of recordFailure: the rejection leaves the loop.
recordFailure_propagates(pass) == [pass EXCEPT !.pc = "finally", !.queue = <<>>, !.threw = TRUE]

\* The catch block of the loop: the rejection of deleteOne is logged and the
\* loop goes on.
recordFailure(pass) == [pass EXCEPT !.pc = "loop", !.queue = Tail(@)]

\* `await Vault.deleteOne({ _id: vault._id }); cleaned++`, or its rejection.
SweepRecord ==
    /\ \E c \in Callers :
          /\ out.pass[c].pc = "record"
          /\ LET vault == Head(out.pass[c].queue)
             IN \/ /\ vaults' = IF vault.id = VaultId THEN {} ELSE vaults
                   /\ out' = [out EXCEPT
                                 !.other = IF vault.id = OtherVaultId THEN FALSE ELSE @,
                                 !.pass[c].pc = "loop",
                                 !.pass[c].queue = Tail(@),
                                 !.pass[c].cleaned = @ + 1]
                \/ /\ out.faults
                   /\ vaults' = vaults
                   /\ out' = [out EXCEPT !.pass[c] = recordFailure(@)]
    /\ UNCHANGED <<reqs, started, nViews, nTokens, tokens, nLost, nFails, blobs, now, recv>>

\* `return { cleaned, total }`.
SweepReturn ==
    /\ \E c \in Callers :
          /\ out.pass[c].pc = "loop"
          /\ out.pass[c].queue = <<>>
          /\ out' = [out EXCEPT !.pass[c].pc = "finally"]
    /\ UNCHANGED <<server, now, recv>>

\* Fault variant of finallyBlock: the flag is cleared only after a pass
\* that did not throw.
finallyBlock_onSuccess(service, c) == [service EXCEPT !.isRunning = service.pass[c].threw, !.pass[c] = IdlePass]

\* `finally { this.isRunning = false }`, after the catch has logged a
\* rejection.
finallyBlock(service, c) == [service EXCEPT !.isRunning = FALSE, !.pass[c] = IdlePass]

SweepFinally ==
    /\ \E c \in Callers :
          /\ out.pass[c].pc = "finally"
          /\ out' = finallyBlock(out, c)
    /\ UNCHANGED <<server, now, recv>>

\* deleteVault's storageService.deleteVaultBlobs when deleteBlob may fail.
DeleteBlobsBestEffort ==
    /\ \E q \in InFlight("delete", "blobs") :
          /\ Goto(q, "commit")
          /\ \E d \in q.snap : \E failed \in SUBSET d.blobKeys :
                /\ failed # {} => out.faults
                /\ blobs' = deleteVaultBlobsExcept(blobs, d.blobKeys, failed)
    /\ UNCHANGED <<vaults, nViews, nTokens, tokens, nLost, nFails, now, recv, out>>

\* The documents a sweep may meet: a stale-to-be pending upload with every
\* chunk stored, a complete vault, and the same soft-deleted or aborted.
CleanupVaults ==
    LET pending == [initializeVault(1, MaxTime, {}, {}, MaxFailedAttempts,
                                    "owner", {}, FALSE, {}, 0)
                       EXCEPT !.chunks = UploadedChunks]
    IN { pending,
         finalizeVault(pending),
         [finalizeVault(pending) EXCEPT !.isDeleted = TRUE],
         [pending EXCEPT !.uploadStatus = "failed", !.isDeleted = TRUE] }

InitCleanup ==
    /\ now = 0
    /\ \E v \in CleanupVaults : vaults = {v}
    /\ reqs = EmptyBag
    /\ started = 0
    /\ nViews = 0
    /\ nTokens = 0
    /\ tokens = {}
    /\ nLost = 0
    /\ nFails = 0
    /\ blobs = UploadedBlobs
    /\ recv = NoRecv
    /\ \E faults \in BOOLEAN, other \in BOOLEAN :
          out = NewCleanupService(faults, other)

NextCleanup ==
    \/ Tick
    \/ StartCleanup
    \/ CronTick
    \/ SweepFind
    \/ SweepBlobs
    \/ SweepRecord
    \/ SweepReturn
    \/ SweepFinally
    \/ FinalizeRead
    \/ FinalizeSave
    \/ ExtendRead
    \/ ExtendSave

SpecCleanup == InitCleanup /\ [][NextCleanup]_vars

\* The same under the scheduling the service relies on: start() is called,
\* the cron task keeps firing, and every awaited call settles.
NextSweep ==
    \/ Tick
    \/ StartCleanup
    \/ CronTick
    \/ SweepFind
    \/ SweepBlobs
    \/ SweepRecord
    \/ SweepReturn
    \/ SweepFinally
    \/ FinalizeRead
    \/ FinalizeSave

SpecCleanupFair ==
    /\ InitCleanup /\ [][NextSweep]_vars
    /\ WF_vars(StartCleanup)
    /\ WF_vars(CronTick)
    /\ WF_vars(SweepFind)
    /\ WF_vars(SweepBlobs)
    /\ WF_vars(SweepRecord)
    /\ WF_vars(SweepReturn)
    /\ WF_vars(SweepFinally)

\* The sweep next to token deletes, both on a store that may fail.
NextPurge ==
    \/ Tick
    \/ StartCleanup
    \/ CronTick
    \/ SweepFind
    \/ SweepBlobs
    \/ SweepRecord
    \/ SweepReturn
    \/ SweepFinally
    \/ DeleteRead
    \/ DeleteBlobsBestEffort
    \/ DeleteCommit

SpecPurge == InitCleanup /\ [][NextPurge]_vars

---------------------------------------------------------------------------
(* C1 *)

\* The policy conditions of an access other than the view count.
OpenAt(v, t) ==
    /\ v.uploadStatus = "complete"
    /\ ~v.isDeleted
    /\ t < v.expiresAt
    /\ v.failedAttempts < v.policy.maxFailedAttempts
    /\ \A s \in v.policy.accessWindowStart : s <= t
    /\ \A e \in v.policy.accessWindowEnd : t <= e

\* C1: concurrent access requests never succeed more often than there are
\* views: the successes are exactly the views taken off remainingViews,
\* which stays >= 0, each success and no other request obtains a token, and
\* once all requests on an open vault have been answered exactly
\* min(requests, views) of them have succeeded (with one view and two
\* requests: exactly one) and every other one was denied.
C1_OneViewOneWinner ==
    \A v \in vaults :
        /\ v.remainingViews >= 0
        /\ nViews = v.policy.maxViews - v.remainingViews
        /\ nTokens = nViews
        /\ nLost <= started - BagCardinality(reqs) - nViews
        /\ reqs = EmptyBag =>
              nViews = IF OpenAt(v, now) THEN Min(started, v.policy.maxViews)
                                         ELSE 0

\* Two requests raced for the only view: one success, one NO_VIEWS_REMAINING.
C1_Witness ==
    /\ \E v \in vaults : v.policy.maxViews = 1 /\ v.remainingViews = 0
    /\ started = 2
    /\ reqs = EmptyBag
    /\ nViews = 1
    /\ nLost = 1

---------------------------------------------------------------------------
(* C4 *)

\* The checks in the order the claim gives them, each with its reason.
OrderedChecks(v, t) ==
    << <<v.isDeleted, "deleted">>,
       <<v.expiresAt <= t, "expired">>,
       <<v.remainingViews <= 0, "no_views_remaining">>,
       <<v.failedAttempts >= v.policy.maxFailedAttempts, "locked_out">>,
       <<\E s \in v.policy.accessWindowStart : t < s, "before_access_window">>,
       <<\E e \in v.policy.accessWindowEnd : t > e, "after_access_window">> >>

FirstFailing(v, t) ==
    LET checks == OrderedChecks(v, t)
        failing == {i \in 1..Len(checks) : checks[i][1]}
    IN IF failing = {} THEN [ok |-> TRUE, reason |-> "none"]
       ELSE [ok |-> FALSE,
             reason |-> checks[CHOOSE i \in failing : \A j \in failing : i <= j][2]]

\* C4: isAccessible returns the first failing reason in the order deleted,
\* expired, no_views_remaining, locked_out, before_access_window,
\* after_access_window, and ok only when no check fails.
C4_FirstFailingReason ==
    out.set => \A v \in vaults : out.access = FirstFailing(v, now)

\* An expired vault that still has views reports "expired".
C4_Witness ==
    /\ out.set
    /\ out.access.reason = "expired"
    /\ \E v \in vaults : v.expiresAt <= now /\ v.remainingViews > 0

---------------------------------------------------------------------------
(* C2 *)

\* C2: remainingViews is never negative, and every step that lowers it
\* lowers it by exactly 1 and is a successful access, under access, failed
\* attempt reports, extends and deletes in any interleaving.
C2_ViewsOnlyLoweredByAccess ==
    /\ [](\A v \in vaults : v.remainingViews >= 0)
    /\ [][\A v \in vaults, w \in vaults' :
             w.remainingViews < v.remainingViews =>
                 /\ w.remainingViews = v.remainingViews - 1
                 /\ nViews' = nViews + 1]_vars

---------------------------------------------------------------------------
(* C3 *)

\* C3: a consumed view is never returned: the successful accesses plus
\* remainingViews always equal policy.maxViews, under access requests
\* interleaved with extends.
C3_ConsumedNeverReturned ==
    \A v \in vaults : nViews + v.remainingViews = v.policy.maxViews

---------------------------------------------------------------------------
(* C5 *)

\* C5: every committed view consumption happens while the vault is
\* accessible: complete, not deleted, now < expiresAt, failedAttempts below
\* the lockout threshold and inside the access window.
C5_ConsumeOnlyWhenAccessible ==
    [][nViews' = nViews + 1 => \A v \in vaults : OpenAt(v, now)]_vars

---------------------------------------------------------------------------
(* C6 *)

\* An access request suspended before consumeView.
consumeReq == Req("access", "consume", {})

\* C6: when an access request that passed the pre-check finds nothing to
\* decrement, it is answered 403 NO_VIEWS_REMAINING, no download session
\* token is issued and the vault document is left as it was.
C6_RaceLostDenied ==
    [][(/\ CopiesIn(consumeReq, reqs') < CopiesIn(consumeReq, reqs)
        /\ consumeView = {})
       => /\ accessResponse(consumeView).status = 403
          /\ accessResponse(consumeView).code = "NO_VIEWS_REMAINING"
          /\ ~accessResponse(consumeView).token
          /\ nTokens' = nTokens
          /\ nViews' = nViews
          /\ nLost' = nLost + 1
          /\ vaults' = vaults]_vars

\* A request lost the race for the last view of a vault that is still there.
C6_Witness ==
    /\ nLost >= 1
    /\ nViews >= 1
    /\ \E v \in vaults : v.remainingViews = 0 /\ ~v.isDeleted

---------------------------------------------------------------------------
(* C7 *)

Locked == \E v \in vaults : v.failedAttempts >= v.policy.maxFailedAttempts

\* C7: failedAttempts never decreases; a locked vault stays locked until its
\* document is removed; while it is locked (or gone) get-metadata and the
\* access pre-check answer 403 ACCESS_DENIED, with reason locked_out unless
\* the vault is gone, soft-deleted, expired or out of views; and no access
\* request passes the pre-check, so none goes on to consume a view.
C7_LockoutPermanent ==
    /\ []((Locked \/ vaults = {}) =>
            /\ ~getVaultMetadata.pass
            /\ getVaultMetadata.code = "ACCESS_DENIED"
            /\ ~accessPolicyCheck.pass
            /\ accessPolicyCheck.code = "ACCESS_DENIED"
            /\ accessPolicyCheck.reason = getVaultMetadata.reason
            /\ \A v \in vaults :
                  (~v.isDeleted /\ now < v.expiresAt /\ v.remainingViews > 0)
                      => getVaultMetadata.reason = "locked_out")
    /\ [][\A v \in vaults, w \in vaults' :
             w.failedAttempts >= v.failedAttempts]_vars
    /\ [][Locked => (Locked' \/ vaults' = {})]_vars
    /\ [][(Locked \/ vaults = {}) =>
             CopiesIn(consumeReq, reqs') <= CopiesIn(consumeReq, reqs)]_vars

\* A locked vault that is otherwise open, after an access request started.
C7_Witness ==
    /\ started >= 1
    /\ \E v \in vaults :
          /\ v.failedAttempts >= v.policy.maxFailedAttempts
          /\ ~v.isDeleted /\ now < v.expiresAt /\ v.remainingViews > 0
          /\ getVaultMetadata.reason = "locked_out"

---------------------------------------------------------------------------
(* C8 *)

\* C8: failedAttempts equals the number of successful reports (no
\* increment is lost), and a successful report changes nothing else of the
\* document: remainingViews, uploadStatus, isDeleted, expiresAt and chunks
\* keep their values, and no view is consumed by it.
C8_FailedAttemptCounted ==
    /\ [](\A v \in vaults : v.failedAttempts = nFails)
    /\ [][nFails' # nFails =>
             /\ nFails' = nFails + 1
             /\ nViews' = nViews
             /\ \E v \in vaults :
                   vaults' = {[v EXCEPT !.failedAttempts = v.failedAttempts + 1]}]_vars

\* Two reports counted on a vault that has also been accessed.
C8_Witness ==
    /\ nFails = 2
    /\ nViews >= 1
    /\ \E v \in vaults : v.failedAttempts = 2

---------------------------------------------------------------------------
(* C9 *)

HasCheck == recv.metadata.isPasswordProtected /\ recv.metadata.passwordCheck # {}

---------------------------------------------------------------------------
(* C10 *)

EntersError == recv.pc # "error" /\ recv'.pc = "error"

Counted == nFails' = nFails + 1

---------------------------------------------------------------------------
(* C11 *)

\* The chunk entries of a document, as a set.
entriesOf(v) == {v.chunks[i] : i \in 1..Len(v.chunks)}

\* The upload requests that the step has just accepted.
AcceptedUploads ==
    {q \in BagToSet(reqs') :
        q.op = "upload" /\ q.pc = "blob" /\ CopiesIn(q, reqs') > CopiesIn(q, reqs)}

\* C11: uploadChunk is accepted only for a vault that exists, is not
\* deleted, is pending, and for an index in [0, expectedChunks); a rejected
\* call writes nothing (a blob is written only by an accepted upload, and a
\* chunk entry is recorded only by an accepted upload or by finalize saving
\* the entries it read).  An accepted upload writes its bytes under the key
\* {vaultId}/chunk-{index} and records the entry of that index.
C11_UploadValidated ==
    [][ /\ \A q \in AcceptedUploads : \E v \in vaults, ch \in q.snap :
              /\ v.uploadStatus = "pending"
              /\ ~v.isDeleted
              /\ ch.entry.index \in 0..(v.expectedChunks - 1)
              /\ ch.entry.blobKey = blobKeyOf(ch.entry.index)
        /\ \A k \in BlobKeys :
              blobs'[k] # blobs[k] /\ blobs'[k] # NoBlob
                 => \E q \in InFlight("upload", "blob") : \E ch \in q.snap :
                       ch.entry.blobKey = k /\ ch.data = blobs'[k]
        /\ \A v \in vaults, w \in vaults' : \A e \in entriesOf(w) \ entriesOf(v) :
              \/ \E q \in InFlight("upload", "save") : \E ch \in q.snap : ch.entry = e
              \/ \E q \in InFlight("finalize", "save") : \E doc \in q.snap :
                    \E i \in 1..Len(doc.chunks) : doc.chunks[i] = e
        /\ \A q \in InFlight("upload", "blob") :
              reqs' = (reqs (-) SetToBag({q})) (+) SetToBag({Req("upload", "save", q.snap)})
                 => \A ch \in q.snap : blobs'[blobKeyOf(ch.entry.index)] = ch.data
        /\ \A q \in InFlight("upload", "save") :
              reqs' = reqs (-) SetToBag({q})
                 => \A ch \in q.snap, v \in vaults :
                       v.version = ch.version
                          => \E w \in vaults' : ch.entry \in entriesOf(w)
      ]_vars

\* An upload of the bytes "b" has been written and recorded.
C11_Witness ==
    /\ \E k \in BlobKeys : blobs[k] = "b"
    /\ \E v \in vaults : \E e \in entriesOf(v) :
          e.hash = sha256Hex("b") /\ blobs[e.blobKey] = "b"
    /\ InFlight("upload", "blob") = {} /\ InFlight("upload", "save") = {}

---------------------------------------------------------------------------
(* C12 *)

\* The positions of the entries of index chunkIndex in the stored list.
positionsOf(v, chunkIndex) ==
    {i \in 1..Len(v.chunks) : v.chunks[i].index = chunkIndex}

\* C12: an upload of an index that the stored list holds once (a first
\* upload of it has completed), saved on the document as it was read,
\* replaces that entry by the new one (size, hash) and leaves the length and
\* every other entry as they were; its blob write replaces the bytes under
\* the key and no other blob; when the new entry equals the stored one the
\* record is unchanged.
C12_ReuploadReplaces ==
    [][ /\ \A q \in InFlight("upload", "save") :
              reqs' = reqs (-) SetToBag({q})
                 => \A ch \in q.snap, v \in vaults :
                       /\ v.version = ch.version
                       /\ Cardinality(positionsOf(v, ch.entry.index)) = 1
                       => /\ vaults' = {[v EXCEPT !.chunks =
                                 [i \in 1..Len(v.chunks) |->
                                     IF v.chunks[i].index = ch.entry.index
                                     THEN ch.entry ELSE v.chunks[i]]]}
                          /\ \A w \in vaults' : Len(w.chunks) = Len(v.chunks)
                          /\ (\E i \in 1..Len(v.chunks) : v.chunks[i] = ch.entry)
                                => vaults' = vaults
        /\ \A q \in InFlight("upload", "blob") :
              reqs' = (reqs (-) SetToBag({q})) (+) SetToBag({Req("upload", "save", q.snap)})
                 => \A ch \in q.snap :
                       blobs' = [blobs EXCEPT ![ch.entry.blobKey] = ch.data]
      ]_vars

\* Both chunks were uploaded with the bytes "a"; one upload has run since and
\* has replaced the entry and the blob of index 0 with the bytes "b".
C12_Witness ==
    /\ started = 1
    /\ reqs = EmptyBag
    /\ \E v \in vaults :
          /\ v.version = 2
          /\ Len(v.chunks) = 2
          /\ v.chunks[1] = chunkEntry(0, "b", sha256Hex("b"))
          /\ v.chunks[2] = chunkEntry(1, "a", sha256Hex("a"))
    /\ blobs[blobKeyOf(0)] = "b"
    /\ blobs[blobKeyOf(1)] = "a"

---------------------------------------------------------------------------
(* C13 *)

\* C13: under concurrent uploads the chunk list of a vault always has
\* pairwise-distinct indices inside [0, expectedChunks) and at most
\* expectedChunks entries.
C13_DistinctIndices ==
    \A v \in vaults :
       /\ Len(v.chunks) <= v.expectedChunks
       /\ \A i \in 1..Len(v.chunks) : v.chunks[i].index \in 0..(v.expectedChunks - 1)
       /\ \A i, j \in 1..Len(v.chunks) :
             i # j => v.chunks[i].index # v.chunks[j].index

---------------------------------------------------------------------------
(* C14 *)

\* The finalize requests that the step has just accepted.
AcceptedFinalizes ==
    {q \in BagToSet(reqs') : q.op = "finalize" /\ CopiesIn(q, reqs') = 1 /\ CopiesIn(q, reqs) = 0}

Ascending(chunks) ==
    \A i, j \in 1..Len(chunks) : i < j => chunks[i].index <= chunks[j].index

\* C14: finalize is accepted only for a vault that exists, is not deleted,
\* is pending and holds exactly expectedChunks entries; a rejected finalize
\* changes nothing, so uploadStatus becomes complete only by the save of an
\* accepted finalize; that save, on the document as it was read,
\* sets uploadStatus = complete and stores the entries sorted ascending by
\* index.
C14_FinalizeChecked ==
    [][ /\ \A q \in AcceptedFinalizes : \E v \in vaults :
              /\ v.uploadStatus = "pending"
              /\ ~v.isDeleted
              /\ Len(v.chunks) = v.expectedChunks
              /\ vaults' = vaults
        /\ \A v \in vaults, w \in vaults' :
              v.uploadStatus # "complete" /\ w.uploadStatus = "complete"
                 => \E q \in InFlight("finalize", "save") : reqs' = reqs (-) SetToBag({q})
        /\ \A q \in InFlight("finalize", "save") :
              reqs' = reqs (-) SetToBag({q})
                 => \A doc \in q.snap, v \in vaults :
                       v.version = doc.version
                          => \E w \in vaults' :
                                /\ w.uploadStatus = "complete"
                                /\ Ascending(w.chunks)
                                /\ Len(w.chunks) = w.expectedChunks
                                /\ entriesOf(w) = {doc.chunks[i] : i \in 1..Len(doc.chunks)}
      ]_vars

\* A vault of two chunks has been finalized.
C14_Witness ==
    \E v \in vaults :
       /\ v.uploadStatus = "complete"
       /\ v.expectedChunks = 2
       /\ Len(v.chunks) = 2
       /\ v.chunks[1].index = 0
       /\ v.chunks[2].index = 1
       /\ InFlight("finalize", "save") = {}

---------------------------------------------------------------------------
(* C15 *)

\* C15: once uploadStatus is complete, no step changes the chunk list of the
\* vault or replaces the bytes stored under one of its blob keys (the removal
\* of a blob by a deletion aside).
C15_CompleteImmutable ==
    [][ \A v \in vaults :
           v.uploadStatus = "complete"
              => /\ \A w \in vaults' : w.chunks = v.chunks
                 /\ \A k \in blobKeysOf(v) : blobs'[k] = blobs[k] \/ blobs'[k] = NoBlob
      ]_vars

---------------------------------------------------------------------------
(* C16 *)

\* C16: every complete vault holds exactly one chunk entry for each index
\* 0..expectedChunks-1, in ascending order (the list that a successful
\* access returns as its chunk descriptors).
C16_CompleteHasEveryIndex ==
    \A v \in vaults :
       v.uploadStatus = "complete"
          => /\ Len(v.chunks) = v.expectedChunks
             /\ \A i \in 1..Len(v.chunks) : v.chunks[i].index = i - 1

---------------------------------------------------------------------------
(* C17 *)

\* The abort requests that the step has just accepted.
AcceptedAborts ==
    {q \in BagToSet(reqs') : q.op = "abort" /\ q.pc = "blobs" /\ CopiesIn(q, reqs') = 1 /\ CopiesIn(q, reqs) = 0}

\* A vault that an abort has marked rejects every later request of the
\* upload phase and of the receivers.
AbortedRejectsAll ==
    (\E v \in vaults : v.uploadStatus = "failed" \/ v.isDeleted)
       => /\ \A chunkIndex \in -1..MaxChunks : ~uploadLookup(chunkIndex).pass
          /\ ~finalizeLookup.pass
          /\ ~getVaultMetadata.pass
          /\ ~accessPolicyCheck.pass
          /\ accessResponse(consumeView).code = "NO_VIEWS_REMAINING"
          /\ ~abortLookup.pass

---------------------------------------------------------------------------
(* C18 *)

\* No vault is complete: every get-metadata, access and download-chunk
\* request is denied, whatever token and index it carries.
HiddenUntilComplete ==
    (\A v \in vaults : v.uploadStatus # "complete")
       => /\ ~getVaultMetadata.pass
          /\ ~accessPolicyCheck.pass
          /\ ~accessResponse(consumeView).pass \/ InFlight("access", "consume") = {}
          /\ \A sessionToken \in SessionTokens, chunkIndex \in -1..MaxChunks :
                ~downloadChunk(sessionToken, chunkIndex).pass

\* C18: while the vault's uploadStatus is not complete (pending or failed),
\* get-metadata, access and download-chunk are denied, and no step consumes
\* a view or issues a session token.
C18_HiddenUntilComplete ==
    /\ []HiddenUntilComplete
    /\ [][ (nViews' # nViews \/ nTokens' # nTokens \/ tokens' # tokens
              \/ \E v \in vaults, w \in vaults' : w.remainingViews < v.remainingViews)
             => \E v \in vaults : v.uploadStatus = "complete"
         ]_vars

\* A token was issued while the vault was complete; the vault has since been
\* marked failed by an abort that had read it while pending, and a download
\* with that unexpired token is asked for.
C18_Witness ==
    /\ \E v \in vaults : v.uploadStatus = "failed"
    /\ \E sessionToken \in tokens :
          sessionCheck(sessionToken, VaultId).pass

---------------------------------------------------------------------------
(* C19 *)

\* A download is served only on an unexpired token that an access to this
\* vault issued; the other tokens get the controller's rejections.
ServedOnlyOnIssuedToken ==
    /\ \A sessionToken \in SessionTokens, chunkIndex \in -1..MaxChunks :
          downloadChunk(sessionToken, chunkIndex).pass
             => /\ sessionToken \in tokens
                /\ now < sessionToken.exp
                /\ sessionToken.vaultId = VaultId
                /\ sessionToken.type = "download_session"
    /\ \A chunkIndex \in 0..MaxChunks :
          /\ downloadChunk(NoToken, chunkIndex).code = "MISSING_SESSION"
          /\ \A sessionToken \in SessionTokens \ {NoToken} :
                (\/ now >= sessionToken.exp
                 \/ sessionToken.type # "download_session"
                 \/ sessionToken.vaultId # VaultId
                 \/ sessionToken \notin tokens)
                => downloadChunk(sessionToken, chunkIndex).code = "INVALID_SESSION"

\* C19: download-chunk serves a chunk of the vault only to a request that
\* presents an unexpired session token issued for this vault, and such a
\* token is issued only by an access that consumes a view; a missing token
\* is answered MISSING_SESSION, and an expired token, a token of another
\* type, a token of another vault or a token signed with another key is
\* answered INVALID_SESSION.
C19_TokenRequired ==
    /\ []ServedOnlyOnIssuedToken
    /\ [][ tokens' # tokens
             => /\ tokens' = tokens \cup {generateDownloadSessionToken(VaultId, now)}
                /\ nViews' = nViews + 1
                /\ \E v \in vaults, w \in vaults' : w.remainingViews = v.remainingViews - 1
         ]_vars

\* Two accesses have succeeded; the token of the first has expired and is
\* refused, the token of the second gets chunk 0.
C19_Witness ==
    /\ \E sessionToken \in tokens : downloadChunk(sessionToken, 0).pass
    /\ \E sessionToken \in tokens :
          now >= sessionToken.exp /\ downloadChunk(sessionToken, 0).code = "INVALID_SESSION"

---------------------------------------------------------------------------
(* C20 *)

\* The deadline of the vault has passed: get-metadata, access (at its check
\* and at its consume step) and download-chunk are all denied.
ExpiredDeniesAll ==
    (\E v \in vaults : now >= v.expiresAt)
       => /\ ~getVaultMetadata.pass
          /\ ~accessPolicyCheck.pass
          /\ InFlight("access", "consume") # {} => ~accessResponse(consumeView).pass
          /\ \A sessionToken \in SessionTokens, chunkIndex \in -1..MaxChunks :
                ~downloadChunk(sessionToken, chunkIndex).pass

\* C20: expiry is absolute: once now >= expiresAt holds it holds for ever
\* (no operation, the owner's extend included, moves the deadline of an
\* expired vault), and while it holds no get-metadata, access or
\* download-chunk request succeeds.
C20_ExpiryAbsolute ==
    /\ []ExpiredDeniesAll
    /\ [][ \A v \in vaults, w \in vaults' :
              now >= v.expiresAt => now' >= w.expiresAt
         ]_vars

---------------------------------------------------------------------------
(* C21 *)

\* The views are exhausted: an access is denied at its check and at its
\* consume step.
NoViewsDeniesAccess ==
    (\E v \in vaults : v.remainingViews = 0)
       => /\ ~accessPolicyCheck.pass
          /\ ~accessResponse(consumeView).pass

\* C21: burn-after-read: once remainingViews has reached 0 it stays 0, so
\* that no later access succeeds and no further session token is issued.
C21_BurnAfterRead ==
    /\ []NoViewsDeniesAccess
    /\ [][ \A v \in vaults, w \in vaults' :
              v.remainingViews = 0
                 => w.remainingViews = 0 /\ tokens' = tokens /\ nViews' = nViews
         ]_vars

---------------------------------------------------------------------------
(* C22 *)

\* The client's address without the ::ffff: prefix.
Unmapped(clientIP) ==
    IF clientIP[1] = "::ffff:" THEN Tail(clientIP) ELSE clientIP

---------------------------------------------------------------------------
(* C23 *)

\* The token delete requests that the step has just accepted.
AcceptedDeletes ==
    {q \in BagToSet(reqs') :
        q.op = "delete" /\ q.pc = "blobs" /\ CopiesIn(q, reqs') > CopiesIn(q, reqs)}

\* The record is gone: get-metadata, access, download-chunk, upload and
\* finalize are denied.
DeletedDeniesAll ==
    vaults = {}
       => /\ ~getVaultMetadata.pass
          /\ ~accessPolicyCheck.pass
          /\ ~accessResponse(consumeView).pass
          /\ \A sessionToken \in SessionTokens, chunkIndex \in -1..MaxChunks :
                ~downloadChunk(sessionToken, chunkIndex).pass
          /\ \A chunkIndex \in -1..MaxChunks : ~uploadLookup(chunkIndex).pass
          /\ ~finalizeLookup.pass

---------------------------------------------------------------------------
(* C24 *)

\* C24 as stated: for every existing record, whatever isAccessible returns
\* for it (deleted included), a report increments failedAttempts by 1.
C24_ReportUnconditional ==
    \A v \in vaults :
       /\ recordFailedAccess.pass
       /\ recordFailedAttempt = {[v EXCEPT !.failedAttempts = @ + 1]}

\* C24, amended: for every existing record that is not marked deleted,
\* whatever isAccessible returns for it (expired, no views remaining, locked
\* out, outside the access window, or accessible), a report succeeds and
\* increments failedAttempts by 1 and changes nothing else; for a record
\* marked deleted the report is denied and changes nothing.
C24_ReportUnlessDeleted ==
    /\ [](\A v \in vaults :
            /\ ~v.isDeleted
                  => /\ recordFailedAccess.pass
                     /\ recordFailedAttempt = {[v EXCEPT !.failedAttempts = @ + 1]}
            /\ v.isDeleted
                  => /\ recordFailedAccess.code = "ACCESS_DENIED"
                     /\ recordFailedAttempt = {})
    /\ [][ \A v \in vaults :
              /\ ~v.isDeleted
                    => /\ vaults' = {[v EXCEPT !.failedAttempts = @ + 1]}
                       /\ nFails' = nFails + 1
              /\ v.isDeleted => vaults' = vaults /\ nFails' = nFails
         ]_vars

\* A report has been counted on a record that is expired, without views,
\* locked out and outside its window at once.
C24_Witness ==
    /\ nFails >= 1
    /\ \E v \in vaults :
          /\ ~v.isDeleted
          /\ now >= v.expiresAt
          /\ v.remainingViews = 0
          /\ v.failedAttempts > v.policy.maxFailedAttempts
          /\ \E e \in v.policy.accessWindowEnd : now > e

---------------------------------------------------------------------------
(* C25 *)

\* C25: for get-metadata and for access, the refusal (status, error code and
\* message) for an existing vault that is inaccessible (deleted, expired,
\* without views, locked out or outside its access window) is the refusal
\* for a vaultId that no document has.
C25_ExistenceNotLeaked ==
    \A v \in vaults :
       ~isAccessible(v, now).ok =>
          /\ ~getVaultMetadata.pass
          /\ getVaultMetadataError = getVaultMetadataUnknown
          /\ ~accessPolicyCheck.pass
          /\ accessError = accessUnknown

---------------------------------------------------------------------------
(* C26 *)

\* The reference tree: a level of odd length gets a copy of its last node
\* appended, then adjacent pairs are hashed, until one node is left.
padLevel(level) ==
    IF Len(level) % 2 = 1 THEN Append(level, level[Len(level)]) ELSE level

pairHashes(level) ==
    [k \in 1..(Len(level) \div 2) |->
        sha256Hex(level[2 * k - 1] \o level[2 * k])]

RECURSIVE merkleRoot(_)
merkleRoot(hashes) ==
    IF hashes = <<>> THEN {}
    ELSE IF Len(hashes) = 1 THEN {hashes[1]}
    ELSE merkleRoot(pairHashes(padLevel(hashes)))

\* C26: for every list of leaf hashes of bounded length, computeMerkleRoot is
\* the root of the reference binary Merkle tree (null for the empty list,
\* the element for a one-element list, otherwise pairwise hashing level by
\* level with an unpaired last node paired with a copy of itself), and the
\* client implementation and the backend helper return the same root.
C26_MerkleReference ==
    /\ out.clientDone => out.client = merkleRoot(out.hashes)
    /\ out.helpersDone => out.helpers = merkleRoot(out.hashes)
    /\ (out.clientDone /\ out.helpersDone) => out.client = out.helpers
    /\ Len(out.hashes) = 0 => computeMerkleRoot(out.hashes) = {}
    /\ Len(out.hashes) = 1 => computeMerkleRoot(out.hashes) = {out.hashes[1]}

\* Both implementations have computed the root of a three-leaf list, whose
\* first level has an unpaired node.
C26_Witness ==
    /\ out.clientDone /\ out.helpersDone
    /\ Len(out.hashes) = 3
    /\ out.client =
          {sha256Hex(sha256Hex(out.hashes[1] \o out.hashes[2])
                     \o sha256Hex(out.hashes[3] \o out.hashes[3]))}

---------------------------------------------------------------------------
(* C27 *)

\* C27: for every list of at least two leaf hashes and every two positions
\* holding distinct hashes, the root of the list with those two leaves
\* exchanged differs from the root of the list.
C27_OrderSensitive ==
    /\ [](\A i \in 1..Len(out.hashes), j \in 1..Len(out.hashes) :
            out.hashes[i] # out.hashes[j]
               => computeMerkleRoot(swapLeaves(out.hashes, i, j))
                     # computeMerkleRoot(out.hashes))
    /\ [](out.swapped => out.client # out.before)

\* Two leaves of a four-leaf list with a repeated hash have been exchanged.
C27_Witness ==
    /\ out.swapped
    /\ Len(out.hashes) = 4
    /\ out.hashes[1] = out.hashes[3]
    /\ out.hashes[2] # out.hashes[4]

---------------------------------------------------------------------------
(* C28 *)

\* C28: with a collision-free hash and an unmodified merkleRoot, the receiver
\* reaches the decryption step only if the sequence of encrypted chunks it
\* downloaded is exactly the sequence the sender uploaded: a replaced,
\* reordered, removed, inserted or duplicated chunk is rejected by the
\* per-chunk hash check or the Merkle root comparison.
C28_TamperDetected ==
    recv.pc = "decrypt" => recv.encryptedChunks = out.sent

---------------------------------------------------------------------------
(* C29 *)

---------------------------------------------------------------------------
(* C30 *)

\* C30: verifyPasswordCheck(k2, generatePasswordCheck(k1)) is true when
\* k2 = k1 and false (it never throws) when k2 differs from k1 or the check
\* value is malformed; with combined keys, the check made for the sender's
\* key passes for content key K and password P' exactly when
\* combineKeysWithHKDF(K, P') is the sender's key.
C30_PasswordCheck ==
    /\ \A k1 \in CryptoKeys, k2 \in CryptoKeys :
          /\ verifyPasswordCheck(k2, generatePasswordCheck(k1)) = (k2 = k1)
          /\ \A c \in MalformedChecks(k1) : ~verifyPasswordCheck(k2, c)
    /\ \A keyFragment \in Fragments, password \in CryptoPasswords :
          verifyPasswordCheck(
             combineKeysWithHKDF(base64UrlToKey(keyFragment), password),
             generatePasswordCheck(senderKey(TRUE)))
          = (combineKeysWithHKDF(base64UrlToKey(keyFragment), password)
                = senderKey(TRUE))
    /\ out.pc = "verified" => out.valid = (out.k2 = out.k1 /\ ~out.altered)

\* The sender's check value has been verified under the key combined from
\* the sender's content key and a wrong password, and refused.
C30_Witness ==
    /\ out.pc = "verified"
    /\ ~out.altered
    /\ out.k1 = senderKey(TRUE)
    /\ out.k2 = combineKeysWithHKDF(base64UrlToKey(SenderFragment), "wrong")
    /\ ~out.valid

---------------------------------------------------------------------------
(* C31 *)

\* C31: once a vault has isDeleted = true or uploadStatus = failed, no step
\* of any operation, in any interleaving with requests already in flight,
\* changes its uploadStatus, isDeleted, chunks, remainingViews or
\* failedAttempts; the record can only be removed.
C31_TerminalAbsorbing ==
    [][\A v \in vaults :
          (v.isDeleted \/ v.uploadStatus = "failed") =>
             \A w \in vaults' :
                /\ w.uploadStatus = v.uploadStatus
                /\ w.isDeleted = v.isDeleted
                /\ w.chunks = v.chunks
                /\ w.remainingViews = v.remainingViews
                /\ w.failedAttempts = v.failedAttempts]_vars

---------------------------------------------------------------------------
(* C32 *)

\* C32: the stored metadataHmac is always the tag over the record's current
\* (vaultId, merkleRoot, expiresAt, policy.maxViews), and get-metadata,
\* access and owner extend refuse to proceed on a record whose tag does not
\* match.
C32_HmacCurrent ==
    \A v \in vaults :
       /\ v.metadataHmac =
             computeMetadataHmac(VaultId, v.merkleRoot, v.expiresAt, v.policy.maxViews)
       /\ v.metadataHmac #
             computeMetadataHmac(VaultId, v.merkleRoot, v.expiresAt, v.policy.maxViews)
          => /\ ~getVaultMetadata.pass
             /\ ~accessPolicyCheck.pass
             /\ \A caller \in Users, body \in ExtendBodies :
                   ~extendLookup(caller, body[1], body[2]).pass

---------------------------------------------------------------------------
(* C33 *)

\* The selection predicate as the claim words it.
Selectable(v, t) ==
    \/ v.expiresAt <= t
    \/ v.isDeleted
    \/ v.uploadStatus = "failed"
    \/ v.uploadStatus = "pending" /\ v.createdAt <= t - stalePendingAge

\* A step of a sweep that deletes the record of the vault.
SweepRemoves(c) ==
    /\ out.pass[c].pc = "record"
    /\ out'.pass[c].cleaned = out.pass[c].cleaned + 1
    /\ Head(out.pass[c].queue).id = VaultId

\* C33: a sweep removes a vault's record, and deletes blobs, only for a
\* vault that matched the selection predicate (expired, deleted, failed, or
\* pending for an hour) when the sweep's query ran; a vault that matches at
\* no time is never removed by a sweep and keeps its blobs.
C33_SweepOnlySelected ==
    /\ [](\A c \in Callers : \A i \in 1..Len(out.pass[c].queue) :
             \A d \in out.pass[c].queue[i].doc :
                /\ Selectable(d, out.pass[c].now)
                /\ out.pass[c].now <= now
                /\ out.pass[c].queue[i].blobKeys = blobKeysOf(d))
    /\ [][\A c \in Callers :
            /\ out.pass[c].pc = "find" /\ out'.pass[c].pc = "loop"
                 => \A i \in 1..Len(out'.pass[c].queue) :
                       out'.pass[c].queue[i].doc \subseteq vaults
            /\ SweepRemoves(c) => Head(out.pass[c].queue).doc # {}
            /\ (out.pass[c].pc = "loop" /\ out'.pass[c].pc = "record")
                 => \A k \in BlobKeys :
                       blobs'[k] # blobs[k] => k \in Head(out.pass[c].queue).blobKeys
         ]_vars
    /\ [][(vaults # {} /\ vaults' = {})
             => \/ \E c \in Callers : SweepRemoves(c)
                \/ \E q \in InFlight("delete", "commit") : reqs' = reqs (-) SetToBag({q})
         ]_vars
    /\ [][(blobs' # blobs)
             => \/ \E c \in Callers : out.pass[c].pc = "loop" /\ out'.pass[c].pc = "record"
                \/ \E q \in InFlight("delete", "blobs") : q \notin BagToSet(reqs') \/ CopiesIn(q, reqs') < CopiesIn(q, reqs)
         ]_vars

\* With no other request ever started, a sweep has removed, before its
\* expiry, the record of a vault it selected, and its blobs.
C33_Witness ==
    /\ vaults = {}
    /\ now < MaxTime
    /\ \E c \in Callers : out.pass[c].cleaned >= 1 /\ out.pass[c].now >= stalePendingAge
    /\ \A k \in BlobKeys : blobs[k] = NoBlob
    /\ reqs = EmptyBag /\ started = 0

---------------------------------------------------------------------------
(* C34 *)

\* The vault matches the selection predicate now.
Matching == \E v \in vaults : Selectable(v, now)

\* The record is gone and so is every blob it referenced.
PhysicallyRemoved == vaults = {} /\ \A k \in BlobKeys : blobs[k] = NoBlob

---------------------------------------------------------------------------
(* C35 *)

\* The callers that are inside cleanupExpiredVaults or its try block.
InPass == {c \in Callers : out.pass[c].pc # "idle"}

\* C35: at most one cleanup pass executes at any time; a cron tick or the
\* startup run that starts while a pass is in progress returns without
\* calling the sweep, and the flag is set exactly while a pass is in
\* progress.
C35_SinglePass ==
    /\ [](Cardinality(InPass) <= 1)
    /\ [](out.isRunning <=> InPass # {})
    /\ [][\A c \in Callers :
            (out.pass[c].pc = "idle" /\ out'.pass[c].pc # "idle")
               => /\ ~out.isRunning
                  /\ InPass = {}
                  /\ out'.pass[c].pc = "find"]_vars
    /\ [][\A c \in Callers :
            (out.isRunning /\ out.pass[c].pc = "idle") => out'.pass[c].pc = "idle"]_vars

\* The cron task is scheduled and idle while the startup run is deleting a
\* record: a tick now is skipped.
C35_Witness ==
    /\ out.task
    /\ out.pass["once"].pc = "record"
    /\ out.pass["cron"].pc = "idle"
    /\ out.isRunning

---------------------------------------------------------------------------
(* C36 *)

\* C36: a blob deletion that fails during a sweep or a delete is not fatal:
\* the other blobs of the vault are still deleted, the vault's record is
\* still deleted next, and the sweep goes on to the remaining selected
\* vaults.
C36_BlobFailureNonFatal ==
    /\ [][\A c \in Callers :
            (out.pass[c].pc = "loop" /\ out.pass[c].queue # <<>> /\ out'.pass[c] # out.pass[c])
               => /\ out'.pass[c].pc = "record"
                  /\ out'.pass[c].queue = out.pass[c].queue
                  /\ ~out'.pass[c].threw
                  /\ \E failed \in SUBSET Head(out.pass[c].queue).blobKeys :
                        \A k \in BlobKeys :
                           blobs'[k] = IF k \in Head(out.pass[c].queue).blobKeys \ failed
                                       THEN NoBlob ELSE blobs[k]]_vars
    /\ [][\A c \in Callers :
            (out.pass[c].pc = "record" /\ out'.pass[c] # out.pass[c])
               => /\ out'.pass[c].pc = "loop"
                  /\ out'.pass[c].queue = Tail(out.pass[c].queue)]_vars
    /\ [][\A q \in InFlight("delete", "blobs") :
            CopiesIn(q, reqs') < CopiesIn(q, reqs)
               => CopiesIn(Req("delete", "commit", q.snap), reqs')
                     > CopiesIn(Req("delete", "commit", q.snap), reqs)]_vars
    /\ [][\A q \in InFlight("delete", "commit") :
            CopiesIn(q, reqs') < CopiesIn(q, reqs) => vaults' = {}]_vars

\* A pass whose blob deletions failed has deleted the record of the vault
\* all the same (a blob is left behind) and is going on with its list,
\* which holds the other vault.
C36_Witness ==
    /\ vaults = {}
    /\ started = 0
    /\ \E k \in BlobKeys : blobs[k] # NoBlob
    /\ \E c \in Callers :
          /\ out.pass[c].pc = "loop"
          /\ out.pass[c].cleaned = 1
          /\ Len(out.pass[c].queue) = 1

---------------------------------------------------------------------------
(* C37 *)

\* A record deletion of the sweep's loop that failed: the item is off the
\* list, or the pass has left the loop, and nothing was counted.
RecordFailed(c) ==
    /\ out.pass[c].pc = "record"
    /\ out'.pass[c] # out.pass[c]
    /\ out'.pass[c].cleaned = out.pass[c].cleaned

\* C37 as stated: a failure to delete a vault's record propagates out of
\* the sweep as an error.
C37_RecordFailurePropagates ==
    [][\A c \in Callers :
          RecordFailed(c) => out'.pass[c].threw /\ out'.pass[c].pc = "finally"]_vars

\* C37 amended: a failure to delete a vault's record is caught inside the
\* loop: the vault is not counted, the sweep goes on to the remaining
\* selected vaults and does not fail; blob failures never make the sweep
\* fail either, and the one failure that leaves the sweep as an error is
\* that of the selecting query.
C37_RecordFailureCaught ==
    /\ [][\A c \in Callers :
            RecordFailed(c)
               => /\ ~out'.pass[c].threw
                  /\ out'.pass[c].pc = "loop"
                  /\ out'.pass[c].queue = Tail(out.pass[c].queue)
                  /\ vaults' = vaults
                  /\ out'.other = out.other]_vars
    /\ [][\A c \in Callers :
            (~out.pass[c].threw /\ out'.pass[c].threw)
               => out.pass[c].pc = "find" /\ out.faults]_vars
    /\ [](\A c \in Callers : out.pass[c].threw => out.pass[c].pc = "finally")

\* A pass failed to delete the vault's record, went on, and deleted the
\* other vault's: one of two selected vaults cleaned, the vault still stored.
C37_Witness ==
    /\ vaults # {}
    /\ ~out.other
    /\ \E c \in Callers :
          /\ out.pass[c].pc = "finally"
          /\ ~out.pass[c].threw
          /\ out.pass[c].total = 2
          /\ out.pass[c].cleaned = 1
          /\ out.pass[c].queue = <<>>

---------------------------------------------------------------------------
(* C38 *)

\* C38: of an abort and a finalize on the same pending vault exactly one
\* takes effect: a vault that finalize has made complete is not afterwards
\* marked failed or deleted, nor are its blobs deleted, and a vault that
\* abort has marked failed never becomes complete.
C38_AbortFinalizeExclusive ==
    [][\A v \in vaults : \A w \in vaults' :
          /\ (v.uploadStatus = "complete" /\ ~v.isDeleted)
                => /\ w.uploadStatus = "complete"
                   /\ ~w.isDeleted
                   /\ \A k \in blobKeysOf(v) : blobs[k] # NoBlob => blobs'[k] # NoBlob
          /\ v.uploadStatus = "failed" => w.uploadStatus # "complete"]_vars

---------------------------------------------------------------------------
(* C39 *)

\* A step of a sweep's loop on the vault's item: the deletion of its blobs
\* or the deletion of its record.
SweepDeletes(c) ==
    /\ out.pass[c].pc \in {"loop", "record"}
    /\ out.pass[c].queue # <<>>
    /\ Head(out.pass[c].queue).id = VaultId
    /\ vaults' # vaults \/ blobs' # blobs

\* C39: a sweep deletes a vault's blobs and record only if the record still
\* satisfies the selection predicate at the moment of the deletion: a vault
\* finalized or extended after the sweep's query is not removed.
C39_SelectedAtDeletion ==
    [][\A c \in Callers : SweepDeletes(c) => \A v \in vaults : Selectable(v, now)]_vars

---------------------------------------------------------------------------
(* The sender's upload hook (useUpload): one upload() call of a file of   *)
(* 1..MaxChunks + 1 chunks, with the Cancel button (abort) pressed at any *)
(* time the page offers it. `out` holds the hook's state and ref, the     *)
(* position of upload() and of abort() at their awaits, and the vault as  *)
(* the server holds it; a request of upload() is handled by the server    *)
(* and answered in one step.                                              *)

\* The statuses in which the page shows the Cancel button.
isProcessing(status) == status \in {"encrypting", "uploading", "finalizing"}

\* reset(): the ref is cleared and the state is the idle state.
useUploadReset(u) ==
    [u EXCEPT !.abortRef = FALSE, !.status = "idle", !.shareUrl = FALSE,
              !.vaultId = FALSE]

\* The head of the encryption loop for index i: past the last chunk the
\* function goes on to the Merkle root; `if (abortRef.current) return`.
encryptLoop(u, i) ==
    IF i >= u.totalChunks THEN [u EXCEPT !.pc = "merkle", !.i = i]
    ELSE IF u.abortRef THEN [u EXCEPT !.pc = "returned", !.i = i]
    ELSE [u EXCEPT !.pc = "encrypt", !.i = i]

\* The head of the upload loop for index i: past the last chunk the status
\* becomes finalizing and finalizeVault is called;
\* `if (abortRef.current) return`; otherwise uploadChunk(i) is called.
uploadLoop(u, i) ==
    IF i >= u.totalChunks
    THEN [u EXCEPT !.pc = "finalize", !.i = i, !.status = "finalizing"]
    ELSE IF u.abortRef THEN [u EXCEPT !.pc = "returned", !.i = i]
    ELSE [u EXCEPT !.pc = "chunk", !.i = i]

\* The catch block of upload(): status error, the error is rethrown.
uploadCatch(u) == [u EXCEPT !.pc = "threw", !.status = "error"]

InitClient ==
    /\ now = 0
    /\ vaults = {}
    /\ reqs = EmptyBag
    /\ started = 0
    /\ nViews = 0
    /\ nTokens = 0
    /\ tokens = {}
    /\ nLost = 0
    /\ nFails = 0
    /\ blobs = EmptyStore
    /\ recv = NoRecv
    /\ \E totalChunks \in 1..(MaxChunks + 1) :
          out = [set |-> FALSE, status |-> "idle", vaultId |-> FALSE,
                 shareUrl |-> FALSE, abortRef |-> FALSE, pc |-> "idle", i |-> 0,
                 totalChunks |-> totalChunks, abortPc |-> "idle",
                 aborted |-> FALSE, vault |-> "none", stored |-> 0]

\* upload() up to its first await: the ref is cleared, status encrypting.
UploadStart ==
    /\ out.pc = "idle"
    /\ out' = [out EXCEPT !.abortRef = FALSE, !.status = "encrypting", !.pc = "key"]
    /\ UNCHANGED <<server, now, recv>>

\* The keys are ready, or a chunk has been encrypted and hashed: the next
\* turn of the encryption loop.
UploadEncrypt ==
    /\ out.pc \in {"key", "encrypt"}
    /\ out' = encryptLoop(out, IF out.pc = "key" THEN 0 ELSE out.i + 1)
    /\ UNCHANGED <<server, now, recv>>

\* Merkle root and file name done: status uploading, initializeVault called.
UploadInitialize ==
    /\ out.pc = "merkle"
    /\ out' = [out EXCEPT !.pc = "init", !.status = "uploading"]
    /\ UNCHANGED <<server, now, recv>>

\* initializeVault answered: the vault exists and is pending, the state
\* takes its id and the upload loop starts; or the request failed.
UploadInitialized ==
    /\ out.pc = "init"
    /\ \/ out' = uploadLoop([out EXCEPT !.vault = "pending", !.vaultId = TRUE], 0)
       \/ out' = uploadCatch(out)
    /\ UNCHANGED <<server, now, recv>>

\* uploadChunk answered: the server stores a chunk of a pending vault only.
UploadChunkDone ==
    /\ out.pc = "chunk"
    /\ out' = IF out.vault = "pending"
              THEN uploadLoop([out EXCEPT !.stored = @ + 1], out.i + 1)
              ELSE uploadCatch(out)
    /\ UNCHANGED <<server, now, recv>>

\* finalizeVault answered: the server completes a pending vault only.
UploadFinalized ==
    /\ out.pc = "finalize"
    /\ out' = IF out.vault = "pending"
              THEN [out EXCEPT !.vault = "complete", !.pc = "url"]
              ELSE uploadCatch(out)
    /\ UNCHANGED <<server, now, recv>>

\* The share URL is built: status done with shareUrl and vaultId.
UploadDone ==
    /\ out.pc = "url"
    /\ out' = [out EXCEPT !.pc = "returned", !.status = "done",
                          !.shareUrl = TRUE, !.vaultId = TRUE]
    /\ UNCHANGED <<server, now, recv>>

\* abort(): the ref is set; with a vaultId in the state abortUpload is
\* called and awaited, without one reset() runs at once.
AbortPressed ==
    /\ isProcessing(out.status)
    /\ out.abortPc = "idle"
    /\ out' = IF out.vaultId
              THEN [out EXCEPT !.abortRef = TRUE, !.aborted = TRUE,
                               !.abortPc = "request"]
              ELSE useUploadReset([out EXCEPT !.abortRef = TRUE, !.aborted = TRUE])
    /\ UNCHANGED <<server, now, recv>>

\* The server handles abortUpload: a pending vault is marked failed and its
\* blobs are deleted, any other vault is not found.
AbortHandled ==
    /\ out.abortPc = "request"
    /\ out' = [out EXCEPT !.abortPc = "handled",
                          !.vault = IF @ = "pending" THEN "failed" ELSE @,
                          !.stored = IF out.vault = "pending" THEN 0 ELSE @]
    /\ UNCHANGED <<server, now, recv>>

\* abortUpload answered (an error is ignored): reset() runs.
AbortAnswered ==
    /\ out.abortPc = "handled"
    /\ out' = useUploadReset([out EXCEPT !.abortPc = "idle"])
    /\ UNCHANGED <<server, now, recv>>

NextClient ==
    \/ UploadStart
    \/ UploadEncrypt
    \/ UploadInitialize
    \/ UploadInitialized
    \/ UploadChunkDone
    \/ UploadFinalized
    \/ UploadDone
    \/ AbortPressed
    \/ AbortHandled
    \/ AbortAnswered

SpecClient == InitClient /\ [][NextClient]_vars

---------------------------------------------------------------------------
(* C40 *)

\* A step of upload() that sends a chunk upload or the finalize request.
SendsUpload ==
    \/ out'.pc = "chunk" /\ (out.pc # "chunk" \/ out'.i # out.i)
    \/ out'.pc = "finalize" /\ out.pc # "finalize"

\* C40: once the sender has invoked abort during an upload, that upload
\* sends no further chunk upload and no finalize request and never reaches
\* status done with a share URL; an abort invoked when the state holds a
\* vault id sends an abort request for it.
C40_AbortStopsUpload ==
    /\ [][out.aborted => ~SendsUpload]_vars
    /\ [](out.aborted => ~(out.status = "done" /\ out.shareUrl))
    /\ [][(~out.aborted /\ out'.aborted /\ out.vaultId) => out'.abortPc = "request"]_vars

===========================================================================
